---- MODULE Spec2Model ----
(***************************************************************************)
(* Model of the inline streaming-insertion engine of the Ghost plugin      *)
(* (src/src/main.ts, GhostPlugin.onload and processStreamingQuery).        *)
(*                                                                         *)
(* Text is a sequence of one-character strings; "\n" is the line break.    *)
(* The ten braille spinner glyphs are the characters "f0" .. "f9".         *)
(* The document buffer is the sequence of its lines, addressed by the host *)
(* editor's zero-based line/column positions (getLine, replaceRange).      *)
(***************************************************************************)
EXTENDS Integers, Sequences, FiniteSets, TLC

VARIABLES
    doc,        \* the editor's document buffer (its lines)
    cursor,     \* the editor's edit cursor, [line, ch]
    settings,   \* this.settings (GhostSettings)
    inv,        \* per invocation: the locals of processStreamingQuery
    hist,       \* per invocation: history of what it did (for the properties)
    notices,    \* the Notice pop-ups shown so far, in order
    requests,   \* the fetch() calls issued so far, in order
    userEdits   \* number of edits the user made while invocations run

vars == <<doc, cursor, settings, inv, hist, notices, requests, userEdits>>

-----------------------------------------------------------------------------
(* Bounds of the model *)

MaxTicks == 2          \* animator ticks per invocation
MaxUserEdits == 1      \* user edits during an invocation
MaxChunk == 5          \* wire symbols per network chunk
MaxEvents == 2         \* lines of a response body
MaxPieces == 2         \* pieces (a token, a word and the trigger phrase) of a parsed line
MaxDocLines == 2       \* lines of a parsed document
MaxPersonas == 2       \* personas configured

-----------------------------------------------------------------------------
(* Characters and texts *)

Min(a, b) == IF a < b THEN a ELSE b
Max(a, b) == IF a > b THEN a ELSE b

NL == "\n"

\* \w of the regular expression, over the characters the model uses
WordChars == {"a", "b", "e", "g", "h", "i", "m", "n", "o", "r", "s", "t", "u",
              "w", "x", "z", "G", "S", "A", "B", "_", "0", "1"}

\* [\w/.-]
IsTokenChar(c) == c \in WordChars \cup {"/", ".", "-"}

RECURSIVE Flatten(_)
Flatten(ss) == IF ss = <<>> THEN <<>> ELSE Head(ss) \o Flatten(Tail(ss))

startsWith(t, p) == Len(p) <= Len(t) /\ SubSeq(t, 1, Len(p)) = p
endsWith(t, p) == Len(p) <= Len(t) /\ SubSeq(t, Len(t) - Len(p) + 1, Len(t)) = p
substring(t, n) == SubSeq(t, Min(n, Len(t)) + 1, Len(t))

\* text.replace(/\n/g, '\n> ')
RECURSIVE QuoteNewlines(_)
QuoteNewlines(t) ==
    IF t = <<>> THEN <<>>
    ELSE IF Head(t) = NL THEN <<NL, ">", " ">> \o QuoteNewlines(Tail(t))
    ELSE <<Head(t)>> \o QuoteNewlines(Tail(t))

-----------------------------------------------------------------------------
(* The host editor: the document is its sequence of lines *)

lineCount(d) == Len(d)

getLine(d, n) == d[n + 1]

Pos(l, c) == [line |-> l, ch |-> c]

\* text.split('\n')
RECURSIVE SplitFrom(_, _)
SplitFrom(t, cur) ==
    IF t = <<>> THEN <<cur>>
    ELSE IF Head(t) = NL THEN <<cur>> \o SplitFrom(Tail(t), <<>>)
    ELSE SplitFrom(Tail(t), Append(cur, Head(t)))

Split(t) == SplitFrom(t, <<>>)

\* lines.join('\n')
RECURSIVE Join(_)
Join(d) ==
    IF Len(d) = 0 THEN <<>>
    ELSE IF Len(d) = 1 THEN d[1]
    ELSE d[1] \o <<NL>> \o Join(Tail(d))

\* the editor clips a position to the document
clip(d, pos) ==
    IF pos.line < 0 THEN Pos(0, 0)
    ELSE IF pos.line >= Len(d) THEN Pos(Len(d) - 1, Len(d[Len(d)]))
    ELSE Pos(pos.line, Max(0, Min(pos.ch, Len(d[pos.line + 1]))))

Before(p, q) == p.line < q.line \/ (p.line = q.line /\ p.ch < q.ch)

replaceRange(d, text, from, to) ==
    LET a == clip(d, from)
        b == IF Before(clip(d, to), a) THEN a ELSE clip(d, to)
        pre == SubSeq(d[a.line + 1], 1, a.ch)
        post == SubSeq(d[b.line + 1], b.ch + 1, Len(d[b.line + 1]))
    IN  SubSeq(d, 1, a.line) \o Split(pre \o text \o post) \o SubSeq(d, b.line + 2, Len(d))

insertAt(d, text, at) == replaceRange(d, text, at, at)

\* editor.getRange(from, to)
getRange(d, from, to) ==
    LET a == clip(d, from)
        b == IF Before(clip(d, to), a) THEN a ELSE clip(d, to)
    IN  IF a.line = b.line THEN SubSeq(d[a.line + 1], a.ch + 1, b.ch)
        ELSE Join(<<SubSeq(d[a.line + 1], a.ch + 1, Len(d[a.line + 1]))>>
                  \o SubSeq(d, a.line + 2, b.line)
                  \o <<SubSeq(d[b.line + 1], 1, b.ch)>>)

-----------------------------------------------------------------------------
(* 4.1 Reference parser: /@([\w\/.-]+)/g and the backward scan *)

RECURSIVE TokenEnd(_, _)
TokenEnd(line, p) ==
    IF p < Len(line) /\ IsTokenChar(line[p + 1]) THEN TokenEnd(line, p + 1) ELSE p

\* [...line.matchAll(modelRegex)] from 1-based index p on
RECURSIVE matchAll(_, _)
matchAll(line, p) ==
    IF p > Len(line) THEN <<>>
    ELSE IF line[p] = "@" /\ p < Len(line) /\ IsTokenChar(line[p + 1])
         THEN LET e == TokenEnd(line, p + 1)
              IN  <<[index |-> p - 1, text |-> SubSeq(line, p, e),
                     model |-> SubSeq(line, p + 1, e)]>>
                      \o matchAll(line, e + 1)
         ELSE matchAll(line, p + 1)

NoMatch == [modelLineNum |-> -1, index |-> 0, text |-> <<>>, model |-> <<>>]

\* mutant: the first match of the line is taken
firstMatchOf(line) == matchAll(line, 1)[1]

\* lines 147-148: matches[matches.length - 1]
lastMatchOf(line) ==
    LET matches == matchAll(line, 1)
    IN  matches[Len(matches)]

\* lines 143-156: for (let i = lineNum; i >= 0; i--)
RECURSIVE scanUp(_, _)
scanUp(d, i) ==
    IF i < 0 THEN NoMatch
    ELSE LET line == getLine(d, i)
             matches == matchAll(line, 1)
         IN  IF Len(matches) > 0
             THEN [modelLineNum |-> i,
                   index |-> lastMatchOf(line).index,
                   text |-> lastMatchOf(line).text,
                   model |-> lastMatchOf(line).model]
             ELSE scanUp(d, i - 1)

\* mutant: the scan starts at the last line of the document
findModelFromEnd(d, lineNum) == scanUp(d, Len(d) - 1)

\* lines 136-156: the reference found for an invocation on line lineNum
findModel(d, lineNum) == scanUp(d, lineNum)

\* mutant: the API key is not checked
earlyReturnNoKeyCheck(found, apiKey) ==
    IF found.modelLineNum = -1 THEN "noModel" ELSE "none"

\* lines 158-166: the early returns
earlyReturn(found, apiKey) ==
    IF found.modelLineNum = -1 THEN "noModel"
    ELSE IF apiKey = <<>> THEN "noKey"
    ELSE "none"

-----------------------------------------------------------------------------
(* Response styles, placeholder and spinner *)

Styles == {"plain", "horizontal-rule", "callout"}

spinnerFrames == <<"f0", "f1", "f2", "f3", "f4", "f5", "f6", "f7", "f8", "f9">>

Glyphs == {spinnerFrames[k] : k \in 1..Len(spinnerFrames)}

Generating == <<" ", "G", "e", "n", "e", "r", "a", "t", "i", "n", "g", ".", ".", ".">>

\* `${spinnerFrames[currentFrameIndex]} Generating...`
getSpinnerText(currentFrameIndex) == <<spinnerFrames[currentFrameIndex + 1]>> \o Generating

prefix(style) ==
    IF style = "horizontal-rule" THEN <<NL, NL, "-", "-", "-", NL, NL>>
    ELSE IF style = "callout"
         THEN <<NL, NL, ">", " ", "[", "!", "a", "i", "]", " ",
                "G", "h", "o", "s", "t", NL, ">", " ">>
    ELSE <<NL, NL>>

spinnerPrefix(style) == IF style = "callout" THEN <<">", " ">> ELSE <<>>

\* mutant: the offset of the plain style is used for every style
generationLineOffsetPlain(style) == 2

generationLineOffset(style) ==
    IF style = "horizontal-rule" THEN 4 ELSE IF style = "callout" THEN 3 ELSE 2

\* spinnerFrames.some(f => checkContent.startsWith(f))
looksLikeSpinner(checkContent) == \E f \in Glyphs : startsWith(checkContent, <<f>>)

-----------------------------------------------------------------------------
(* Prompt, persona and request body *)

IsSpace(c) == c \in {" ", NL}

RECURSIVE trimStart(_)
trimStart(t) == IF t # <<>> /\ IsSpace(Head(t)) THEN trimStart(Tail(t)) ELSE t

RECURSIVE trimEnd(_)
trimEnd(t) ==
    IF t # <<>> /\ IsSpace(t[Len(t)]) THEN trimEnd(SubSeq(t, 1, Len(t) - 1)) ELSE t

\* text.trim()
trim(t) == trimEnd(trimStart(t))

WebFlag == <<"+", "w", "e", "b">>

\* lines 189-193: the +web flag at the end of the (trimmed) prompt
stripWeb(prompt) ==
    IF endsWith(prompt, WebFlag)
    THEN [prompt |-> trim(SubSeq(prompt, 1, Len(prompt) - 4)), hasWebFlag |-> TRUE]
    ELSE [prompt |-> prompt, hasWebFlag |-> FALSE]

Persona(name, model, systemPrompt) ==
    [name |-> name, model |-> model, systemPrompt |-> systemPrompt]

\* mutant: the last persona of that name is taken
RECURSIVE findPersonaLast(_, _)
findPersonaLast(personas, model) ==
    IF personas = <<>> THEN <<>>
    ELSE IF personas[Len(personas)].name = model THEN <<personas[Len(personas)]>>
    ELSE findPersonaLast(SubSeq(personas, 1, Len(personas) - 1), model)

\* line 251: personas.find(p => p.name === model), <<>> for undefined
RECURSIVE findPersona(_, _)
findPersona(personas, model) ==
    IF personas = <<>> THEN <<>>
    ELSE IF Head(personas).name = model THEN <<Head(personas)>>
    ELSE findPersona(Tail(personas), model)

\* lines 251-259
resolvePersona(personas, model, systemPrompt) ==
    LET persona == findPersona(personas, model)
    IN  IF persona # <<>>
        THEN [targetModel |-> persona[1].model,
              systemInstruction |-> persona[1].systemPrompt]
        ELSE [targetModel |-> model, systemInstruction |-> systemPrompt]

\* the text "Context from the current note:\n", as one symbol and a line break
ContextHeader == <<"Context from the current note:", NL>>

\* lines 261-263
systemPromptOf(systemInstruction, context) ==
    IF systemInstruction # <<>>
    THEN systemInstruction \o <<NL, NL>> \o ContextHeader \o context
    ELSE ContextHeader \o context

\* mutant: the flag asks for a search under every policy
shouldSearchByFlag(webSearchPolicy, hasWebFlag) ==
    webSearchPolicy = "always" \/ hasWebFlag

\* lines 274-279
shouldSearch(webSearchPolicy, hasWebFlag) ==
    IF webSearchPolicy = "always" THEN TRUE
    ELSE IF webSearchPolicy = "trigger" THEN hasWebFlag
    ELSE FALSE

\* lines 282-285, as JSON.stringify writes it: a key whose value is undefined
\* is left out
pluginsOf(webSearchEngine) ==
    IF webSearchEngine = "auto" THEN <<[id |-> "web"]>>
    ELSE <<[id |-> "web", engine |-> webSearchEngine]>>

\* lines 265-286 and 298: the body of the request
requestBody(s, model, context, prompt, hasWebFlag) ==
    LET r == resolvePersona(s.personas, model, s.systemPrompt)
        body == [model |-> r.targetModel,
                 stream |-> TRUE,
                 messages |-> <<[role |-> "system",
                                 content |-> systemPromptOf(r.systemInstruction, context)],
                                [role |-> "user", content |-> prompt]>>]
    IN  IF shouldSearch(s.webSearchPolicy, hasWebFlag)
        THEN body @@ [plugins |-> pluginsOf(s.webSearchEngine)]
        ELSE body

-----------------------------------------------------------------------------
(* Offsets, for the history of writes: where a written text really ends *)

RECURSIVE OffsetOfLine(_, _)
OffsetOfLine(d, n) == IF n = 0 THEN 0 ELSE OffsetOfLine(d, n - 1) + Len(d[n]) + 1

OffsetOf(d, pos) == OffsetOfLine(d, clip(d, pos).line) + clip(d, pos).ch

RECURSIVE PosAtFrom(_, _, _)
PosAtFrom(d, off, l) ==
    IF l + 1 >= Len(d) \/ off <= Len(d[l + 1]) THEN Pos(l, off)
    ELSE PosAtFrom(d, off - Len(d[l + 1]) - 1, l + 1)

PosAt(d, off) == PosAtFrom(d, off, 0)

\* the position just after `text` once it is written at `from` of d
endOfWrite(d, text, from) == PosAt(insertAt(d, text, from), OffsetOf(d, from) + Len(text))

-----------------------------------------------------------------------------
(* Invocations *)

AllInvs == {1, 2}

IdleInv ==
    [pc |-> "idle",              \* idle, fetch, errorText, read, done
     exit |-> "none",            \* how the invocation returned
     lineNum |-> 0,
     model |-> <<>>,
     modelLineNum |-> -1,
     modelIndex |-> 0,
     prompt |-> <<>>,
     hasWebFlag |-> FALSE,
     generationLine |-> 0,
     currentInsertPos |-> Pos(0, 0),
     isFirstChunk |-> TRUE,
     loadingInterval |-> FALSE,  \* the variable holds a timer id (is not null)
     timerActive |-> FALSE,      \* the host still fires the interval callback
     currentFrameIndex |-> 0,
     wire |-> <<>>,              \* sent by the server, not yet delivered
     buffer |-> <<>>,            \* the incomplete last line of the stream
     collectedAnnotations |-> <<>>]

IdleHist ==
    [ticks |-> 0,                \* interval callbacks run
     tickWrites |-> 0,           \* of which wrote to the document
     clears |-> 0,               \* clearInterval calls
     written |-> <<>>,           \* content deltas written, in order
     arrived |-> <<>>,           \* content deltas of the complete lines delivered
     pending |-> <<>>,           \* symbols delivered after the last line break
     arrivedLines |-> 0,         \* line breaks delivered: the complete lines
     arrivedAnnotations |-> <<>>, \* annotations of the complete lines delivered
     arrivedBad |-> 0,           \* complete lines delivered that are not JSON
     arrivedErrors |-> 0,        \* complete lines delivered that are error lines
     sent |-> 0,                 \* lines the server has begun to send
     lastWrite |-> "none",       \* kind of the invocation's last document edit
     lastEnd |-> Pos(0, 0),      \* position just after the text of that edit
     tailLines |-> 0,            \* lines below the invocation line at the start
     before |-> <<>>,            \* the document when triggered
     at |-> Pos(0, 0),           \* the edit cursor when triggered
     answer |-> "none",          \* how fetch() resolved: notOk, noBody, ok
     lines |-> 0,                \* complete stream lines handled by the loop
     skipped |-> 0,              \* of which data lines that were not JSON
     errorLines |-> 0,           \* of which in-band error lines
     atNotice |-> <<>>]          \* per notice shown: was the timer running then

Started(i) == inv[i].pc # "idle"

\* mutant: every trigger phrase at the end of the line is left out
RECURSIVE promptEndChOfAll(_, _)
promptEndChOfAll(lineText, triggerPhrase) ==
    IF triggerPhrase # <<>> /\ endsWith(lineText, triggerPhrase)
    THEN promptEndChOfAll(SubSeq(lineText, 1, Len(lineText) - Len(triggerPhrase)),
                          triggerPhrase)
    ELSE Len(lineText)

\* lines 175-181: where the prompt ends on the invocation line
promptEndChOf(lineText, triggerPhrase) ==
    IF endsWith(lineText, triggerPhrase)
    THEN Len(lineText) - Len(triggerPhrase)
    ELSE Len(lineText)

\* lines 135-299: from the call to the await of fetch(), one synchronous run
processStreamingQuery(i, lineNum, lineText) ==
    LET found == findModel(doc, lineNum)
        triggerPhrase == settings.triggerPhrase
        shouldRemoveTrigger == endsWith(lineText, triggerPhrase)
        promptEndCh == promptEndChOf(lineText, triggerPhrase)
        context == getRange(doc, Pos(0, 0), Pos(found.modelLineNum, found.index))
        promptStart == Pos(found.modelLineNum, found.index + Len(found.text))
        web == stripWeb(trim(getRange(doc, promptStart, Pos(lineNum, promptEndCh))))
        doc1 == IF shouldRemoveTrigger
                THEN replaceRange(doc, <<>>, Pos(lineNum, promptEndCh),
                                  Pos(lineNum, Len(lineText)))
                ELSE doc
        style == settings.responseStyle
        placeholder == prefix(style) \o getSpinnerText(0)
        doc2 == insertAt(doc1, placeholder, Pos(lineNum, promptEndCh))
        generationLine == lineNum + generationLineOffset(style)
        h0 == [hist[i] EXCEPT !.at = cursor', !.before = doc]
        h1 == [h0 EXCEPT !.atNotice = Append(@, inv[i].timerActive)]
        early == earlyReturn(found, settings.apiKey)
    IN  IF early = "noModel"
        THEN /\ notices' = Append(notices, "no model specified")
             /\ inv' = [inv EXCEPT ![i] = [@ EXCEPT !.pc = "done", !.exit = "noModel",
                                                     !.lineNum = lineNum]]
             /\ hist' = [hist EXCEPT ![i] = h1]
             /\ UNCHANGED <<doc, requests>>
        ELSE IF early = "noKey"
        THEN /\ notices' = Append(notices, "API key missing")
             /\ inv' = [inv EXCEPT ![i] = [@ EXCEPT !.pc = "done", !.exit = "noKey",
                                                     !.lineNum = lineNum,
                                                     !.model = found.model,
                                                     !.modelLineNum = found.modelLineNum,
                                                     !.modelIndex = found.index]]
             /\ hist' = [hist EXCEPT ![i] = h1]
             /\ UNCHANGED <<doc, requests>>
        ELSE /\ doc' = doc2
             /\ inv' = [inv EXCEPT ![i] =
                            [@ EXCEPT !.pc = "fetch",
                                      !.lineNum = lineNum,
                                      !.model = found.model,
                                      !.modelLineNum = found.modelLineNum,
                                      !.modelIndex = found.index,
                                      !.prompt = web.prompt,
                                      !.hasWebFlag = web.hasWebFlag,
                                      !.generationLine = generationLine,
                                      !.currentInsertPos = Pos(generationLine, 0),
                                      !.isFirstChunk = TRUE,
                                      !.loadingInterval = TRUE,
                                      !.timerActive = TRUE,
                                      !.currentFrameIndex = 0]]
             /\ hist' = [hist EXCEPT ![i] =
                            [h0 EXCEPT !.lastWrite = "placeholder",
                                       !.lastEnd = endOfWrite(doc1, placeholder,
                                                              Pos(lineNum, promptEndCh)),
                                       !.tailLines = Len(doc) - 1 - lineNum]]
             /\ requests' = Append(requests,
                                    [by |-> i,
                                     body |-> requestBody(settings, found.model, context,
                                                          web.prompt, web.hasWebFlag)])
             /\ UNCHANGED notices

\* lines 112-121: the command, with the edit cursor at `at`
TriggerCommand(i, at) ==
    /\ inv[i].pc = "idle"
    /\ cursor' = at
    /\ processStreamingQuery(i, at.line, getLine(doc, at.line))
    /\ UNCHANGED <<settings, userEdits>>

\* lines 123-132: the document changed with the edit cursor at `at`
EditorChange(i, at) ==
    /\ inv[i].pc = "idle"
    /\ endsWith(getLine(doc, at.line), settings.triggerPhrase)
    /\ cursor' = at
    /\ processStreamingQuery(i, at.line, getLine(doc, at.line))
    /\ UNCHANGED <<settings, userEdits>>

\* mutant: a tick that finds no generation line leaves the timer running
TickKeepsRunning(i) ==
    LET g == inv[i].generationLine
        style == settings.responseStyle
        idx == (inv[i].currentFrameIndex + 1) % Len(spinnerFrames)
        exists == lineCount(doc) > g
        lineContent == getLine(doc, g)
        checkContent == IF style = "callout" THEN substring(lineContent, 2)
                        ELSE lineContent
        writes == exists /\ looksLikeSpinner(checkContent)
        text == spinnerPrefix(style) \o getSpinnerText(idx)
    IN  /\ inv[i].timerActive
        /\ hist[i].ticks < MaxTicks
        /\ inv' = [inv EXCEPT ![i] = [@ EXCEPT !.currentFrameIndex = idx]]
        /\ doc' = IF writes
                  THEN replaceRange(doc, text, Pos(g, 0), Pos(g, Len(lineContent)))
                  ELSE doc
        /\ hist' = [hist EXCEPT ![i] =
                        [@ EXCEPT !.ticks = @ + 1,
                                  !.tickWrites = IF writes THEN @ + 1 ELSE @,
                                  !.lastWrite = IF writes THEN "tick" ELSE @,
                                  !.lastEnd = IF writes
                                              THEN endOfWrite(doc, text, Pos(g, 0))
                                              ELSE @]]
        /\ UNCHANGED <<cursor, settings, notices, requests, userEdits>>

\* lines 227-244: the setInterval callback
Tick(i) ==
    LET g == inv[i].generationLine
        style == settings.responseStyle
        idx == (inv[i].currentFrameIndex + 1) % Len(spinnerFrames)
        exists == lineCount(doc) > g
        lineContent == getLine(doc, g)
        checkContent == IF style = "callout" THEN substring(lineContent, 2)
                        ELSE lineContent
        writes == exists /\ looksLikeSpinner(checkContent)
        text == spinnerPrefix(style) \o getSpinnerText(idx)
    IN  /\ inv[i].timerActive
        /\ hist[i].ticks < MaxTicks
        /\ inv' = [inv EXCEPT ![i] =
                       [@ EXCEPT !.currentFrameIndex = idx,
                                 !.timerActive = exists]]
        /\ doc' = IF writes
                  THEN replaceRange(doc, text, Pos(g, 0), Pos(g, Len(lineContent)))
                  ELSE doc
        /\ hist' = [hist EXCEPT ![i] =
                        [@ EXCEPT !.ticks = @ + 1,
                                  !.tickWrites = IF writes THEN @ + 1 ELSE @,
                                  !.clears = IF exists THEN @ ELSE @ + 1,
                                  !.lastWrite = IF writes THEN "tick" ELSE @,
                                  !.lastEnd = IF writes
                                              THEN endOfWrite(doc, text, Pos(g, 0))
                                              ELSE @]]
        /\ UNCHANGED <<cursor, settings, notices, requests, userEdits>>

-----------------------------------------------------------------------------
(* 4.4 The stream: events, their lines on the wire, network chunks *)

\* data: {"choices":[{"delta":{"content":..., "annotations":[...]}}]}
Data(content, annotations) ==
    [k |-> "data", content |-> content, annotations |-> annotations]

Ann(url, title) == [cite |-> TRUE, url |-> url, title |-> title]
AnnNoCite == [cite |-> FALSE, url |-> <<>>, title |-> <<>>]

Other(kind) == [k |-> kind, content |-> <<>>, annotations |-> <<>>]

DoneLine == Other("done")            \* data: [DONE]
KeepAlive == Other("keepalive")      \* : OPENROUTER PROCESSING
Blank == Other("blank")              \* an empty line
ErrorLine == Other("error")          \* error: ...
Malformed == Other("malformed")      \* data: followed by what is not JSON
Unexpected == Other("unexpected")    \* any other line

\* A line travels as two halves followed by a line break, so that a network
\* chunk can end inside a line.
Sym(part, e) == [part |-> part, ev |-> e]
NLSym == Sym("NL", Blank)

WireLine(e) == IF e.k = "blank" THEN <<>> ELSE <<Sym("H", e), Sym("T", e)>>

RECURSIVE WireOf(_)
WireOf(events) ==
    IF events = <<>> THEN <<>>
    ELSE WireLine(Head(events)) \o <<NLSym>> \o WireOf(Tail(events))

\* buffer.split('\n') on wire symbols
RECURSIVE SplitWire(_, _)
SplitWire(syms, cur) ==
    IF syms = <<>> THEN <<cur>>
    ELSE IF Head(syms).part = "NL" THEN <<cur>> \o SplitWire(Tail(syms), <<>>)
    ELSE SplitWire(Tail(syms), Append(cur, Head(syms)))

\* What a (trimmed) line is taken for, lines 388-398 and 492-498.  A piece of
\* a line is no valid JSON payload and matches no other prefix, except that
\* the first half of a line carries the line's prefix.
ParseLine(line) ==
    IF line = <<>> THEN Blank
    ELSE IF Len(line) = 2 /\ line[1].part = "H" /\ line[2].part = "T"
            /\ line[1].ev = line[2].ev
         THEN line[1].ev
    ELSE IF line[1].part = "H" /\ line[1].ev.k \in {"data", "malformed", "done"}
         THEN Malformed
    ELSE IF line[1].part = "H" /\ line[1].ev.k = "error" THEN ErrorLine
    ELSE Unexpected

-----------------------------------------------------------------------------
(* 4.5 Insertion cursor *)

\* mutant: in callout style every delta is given a marker of its own
displayContentOfMarked(content, style) ==
    IF style = "callout" THEN <<">", " ">> \o QuoteNewlines(content) ELSE content

\* lines 410-413
displayContentOf(content, style) ==
    IF style = "callout" THEN QuoteNewlines(content) ELSE content

\* lines 437-448
posAfterFirst(generationLine, displayContent) ==
    LET lines == Split(displayContent)
    IN  IF Len(lines) > 1
        THEN Pos(generationLine + Len(lines) - 1, Len(lines[Len(lines)]))
        ELSE Pos(generationLine, Len(displayContent))

\* mutant: the column always advances by the length of the text
posAfterDeltaNoNewline(currentInsertPos, displayContent) ==
    Pos(currentInsertPos.line, currentInsertPos.ch + Len(displayContent))

\* mutant: after a line break the column is counted on from the old one
posAfterDeltaColumnKept(currentInsertPos, displayContent) ==
    LET lines == Split(displayContent)
    IN  Pos(currentInsertPos.line + Len(lines) - 1,
            currentInsertPos.ch + Len(lines[Len(lines)]))

\* lines 472-483
posAfterDelta(currentInsertPos, displayContent) ==
    LET lines == Split(displayContent)
    IN  IF Len(lines) > 1
        THEN Pos(currentInsertPos.line + Len(lines) - 1, Len(lines[Len(lines)]))
        ELSE Pos(currentInsertPos.line, currentInsertPos.ch + Len(displayContent))

\* lines 355-359 and 367-371
posAfterBlock(currentInsertPos, text) ==
    LET lines == Split(text)
    IN  Pos(currentInsertPos.line + Len(lines) - 1, Len(lines[Len(lines)]))

\* The state a synchronous run of the read loop works on
St(d, v, h, n, c) == [doc |-> d, v |-> v, h |-> h, notices |-> n, cursor |-> c]

\* new Notice(text), lines 308, 494, 512
notify(st, text) ==
    [st EXCEPT !.notices = Append(@, text),
               !.h = [@ EXCEPT !.atNotice = Append(@, st.v.timerActive)]]

\* mutant: the first delta leaves the animator running
stopAnimatorForgotten(st) == st

\* lines 416-419: clearInterval(loadingInterval); loadingInterval = null
stopAnimator(st) ==
    IF st.v.loadingInterval
    THEN [st EXCEPT !.v = [@ EXCEPT !.loadingInterval = FALSE, !.timerActive = FALSE],
                    !.h = [@ EXCEPT !.clears = @ + 1]]
    ELSE st

\* mutant: only the placeholder's original length is replaced
firstChunkRangeOriginal(d, generationLine) ==
    [from |-> Pos(generationLine, 0),
     to |-> Pos(generationLine, Len(getSpinnerText(0)))]

\* lines 430-434: the range the first delta replaces
firstChunkRange(d, generationLine) ==
    [from |-> Pos(generationLine, 0),
     to |-> Pos(generationLine, Len(getLine(d, generationLine)))]

\* mutant: the fallback appends the delta with nothing in front
fallbackTextOfBare(content, style) ==
    IF style = "callout" THEN <<">", " ">> \o QuoteNewlines(content) ELSE content

\* lines 454-459: `\n\n${fallbackContent}`
fallbackTextOf(content, style) ==
    LET fallbackContent == IF style = "callout"
                           THEN <<NL, ">", " ">> \o QuoteNewlines(content)
                           ELSE content
    IN  <<NL, NL>> \o fallbackContent

\* lines 415-466: the first non-empty content delta
firstChunk(st0, content, style) ==
    LET st == stopAnimator(st0)
        g == st.v.generationLine
        quoted == displayContentOf(content, style)
        range == firstChunkRange(st.doc, g)
        displayContent == IF style = "callout" THEN <<">", " ">> \o quoted ELSE quoted
        lastLine == lineCount(st.doc) - 1
        lastLineLen == Len(getLine(st.doc, lastLine))
        fallbackText == fallbackTextOf(content, style)
        exists == lineCount(st.doc) > g
        doc1 == IF exists
                THEN replaceRange(st.doc, displayContent, range.from, range.to)
                ELSE insertAt(st.doc, fallbackText, Pos(lastLine, lastLineLen))
        endLine == lineCount(doc1) - 1
        pos1 == IF exists
                THEN posAfterFirst(g, displayContent)
                ELSE Pos(endLine, Len(getLine(doc1, endLine)))
        end1 == IF exists
                THEN endOfWrite(st.doc, displayContent, Pos(g, 0))
                ELSE endOfWrite(st.doc, fallbackText, Pos(lastLine, lastLineLen))
    IN  [st EXCEPT !.doc = doc1,
                   !.v = [@ EXCEPT !.currentInsertPos = pos1,
                                   !.isFirstChunk = FALSE],
                   !.h = [@ EXCEPT !.written = Append(@, content),
                                   !.lastWrite = IF exists THEN "first" ELSE "fallback",
                                   !.lastEnd = end1]]

\* mutant: a later delta takes the place of the line break that follows
nextChunkOverwrites(st, content, style) ==
    LET displayContent == displayContentOf(content, style)
        at == st.v.currentInsertPos
    IN  [st EXCEPT !.doc = replaceRange(st.doc, displayContent, at, Pos(at.line + 1, 0)),
                   !.v = [@ EXCEPT !.currentInsertPos = posAfterDelta(at, displayContent)],
                   !.h = [@ EXCEPT !.written = Append(@, content),
                                   !.lastWrite = "delta",
                                   !.lastEnd = endOfWrite(st.doc, displayContent, at)]]

\* lines 467-484: every later content delta
nextChunk(st, content, style) ==
    LET displayContent == displayContentOf(content, style)
        at == st.v.currentInsertPos
    IN  [st EXCEPT !.doc = insertAt(st.doc, displayContent, at),
                   !.v = [@ EXCEPT !.currentInsertPos = posAfterDelta(at, displayContent)],
                   !.h = [@ EXCEPT !.written = Append(@, content),
                                   !.lastWrite = "delta",
                                   !.lastEnd = endOfWrite(st.doc, displayContent, at)]]

\* a line of the stream is taken up by the loop
countLine(st, e) ==
    [st EXCEPT !.h = [@ EXCEPT !.lines = @ + 1,
                               !.skipped = IF e.k = "malformed" THEN @ + 1 ELSE @,
                               !.errorLines = IF e.k = "error" THEN @ + 1 ELSE @]]

\* mutant: a data line that is not JSON is taken for the end of the waiting
processLineMalformedStops(st0, line, style) ==
    LET e == ParseLine(line)
        st == countLine(st0, e)
        st1 == [st EXCEPT !.v = [@ EXCEPT !.collectedAnnotations = @ \o e.annotations]]
    IN  IF e.k = "data"
        THEN IF e.content # <<>>
             THEN IF st.v.isFirstChunk
                  THEN firstChunk(st1, e.content, style)
                  ELSE nextChunk(st1, e.content, style)
             ELSE st1
        ELSE IF e.k = "error"
        THEN notify(st, "Stream Error")
        ELSE IF e.k = "malformed"
        THEN stopAnimator(st)
        ELSE st

\* mutant: an in-band error line ends the invocation
processLineErrorAborts(st0, line, style) ==
    LET e == ParseLine(line)
        st == countLine(st0, e)
        st1 == [st EXCEPT !.v = [@ EXCEPT !.collectedAnnotations = @ \o e.annotations]]
    IN  IF st.v.pc # "read" THEN st0
        ELSE IF e.k = "data"
        THEN IF e.content # <<>>
             THEN IF st.v.isFirstChunk
                  THEN firstChunk(st1, e.content, style)
                  ELSE nextChunk(st1, e.content, style)
             ELSE st1
        ELSE IF e.k = "error"
        THEN [notify(st, "Stream Error") EXCEPT !.v = [@ EXCEPT !.pc = "done",
                                                                 !.exit = "aborted"]]
        ELSE st

\* lines 388-498: one line of the stream
processLine(st0, line, style) ==
    LET e == ParseLine(line)
        st == countLine(st0, e)
        st1 == [st EXCEPT !.v = [@ EXCEPT !.collectedAnnotations = @ \o e.annotations]]
    IN  IF e.k = "data"
        THEN IF e.content # <<>>
             THEN IF st.v.isFirstChunk
                  THEN firstChunk(st1, e.content, style)
                  ELSE nextChunk(st1, e.content, style)
             ELSE st1
        ELSE IF e.k = "error"
        THEN notify(st, "Stream Error")
        ELSE st

\* mutant: the lines of a chunk are handled last first
RECURSIVE processLinesReversed(_, _, _)
processLinesReversed(st, lines, style) ==
    IF lines = <<>> THEN st
    ELSE processLinesReversed(processLine(st, lines[Len(lines)], style),
                              SubSeq(lines, 1, Len(lines) - 1), style)

\* lines 387-499: for (const line of lines)
RECURSIVE processLines(_, _, _)
processLines(st, lines, style) ==
    IF lines = <<>> THEN st
    ELSE processLines(processLine(st, Head(lines), style), Tail(lines), style)

-----------------------------------------------------------------------------
(* Stream completion: Sources, divider, cursor relocation *)

\* uniqueSources.set(url, title || url): a Map keeps the order of first insertion
mapSet(m, url, title) ==
    IF \E k \in 1..Len(m) : m[k].url = url
    THEN [k \in 1..Len(m) |-> IF m[k].url = url THEN [m[k] EXCEPT !.title = title]
                              ELSE m[k]]
    ELSE Append(m, [url |-> url, title |-> title])

\* mutant: every citation annotation gets an entry of its own
RECURSIVE uniqueSourcesAll(_, _)
uniqueSourcesAll(annotations, m) ==
    IF annotations = <<>> THEN m
    ELSE LET a == Head(annotations)
         IN  uniqueSourcesAll(Tail(annotations),
                              IF a.cite
                              THEN Append(m, [url |-> a.url,
                                              title |-> IF a.title # <<>> THEN a.title
                                                        ELSE a.url])
                              ELSE m)

\* lines 334-339
RECURSIVE uniqueSources(_, _)
uniqueSources(annotations, m) ==
    IF annotations = <<>> THEN m
    ELSE LET a == Head(annotations)
         IN  uniqueSources(Tail(annotations),
                           IF a.cite
                           THEN mapSet(m, a.url, IF a.title # <<>> THEN a.title ELSE a.url)
                           ELSE m)

\* lines 342-345
RECURSIVE sourceEntries(_)
sourceEntries(m) ==
    IF m = <<>> THEN <<>>
    ELSE <<"-", " ", "[">> \o Head(m).title \o <<"]", "(">> \o Head(m).url
             \o <<")", NL>> \o sourceEntries(Tail(m))

\* mutant: the Sources block is written as it is in every style
sourcesTextOfUnquoted(m, style) ==
    <<NL, NL, "*", "*", "S", "o", "u", "r", "c", "e", "s", ":", "*", "*", NL>>
        \o sourceEntries(m)

\* lines 342-349
sourcesTextOf(m, style) ==
    LET sourcesText == <<NL, NL, "*", "*", "S", "o", "u", "r", "c", "e", "s", ":",
                         "*", "*", NL>> \o sourceEntries(m)
    IN  IF style = "callout" THEN QuoteNewlines(sourcesText) ELSE sourcesText

divider == <<NL, NL, "-", "-", "-">>

\* lines 333-361
appendSources(st, style) ==
    LET m == uniqueSources(st.v.collectedAnnotations, <<>>)
        sourcesText == sourcesTextOf(m, style)
        at == st.v.currentInsertPos
    IN  IF Len(st.v.collectedAnnotations) > 0 /\ Len(m) > 0
        THEN [st EXCEPT !.doc = insertAt(st.doc, sourcesText, at),
                        !.v = [@ EXCEPT !.currentInsertPos = posAfterBlock(at, sourcesText)],
                        !.h = [@ EXCEPT !.lastWrite = "sources",
                                        !.lastEnd = endOfWrite(st.doc, sourcesText, at)]]
        ELSE st

\* mutant: the trailing divider is appended in every style
appendDividerAlways(st, style) ==
    LET at == st.v.currentInsertPos
    IN  [st EXCEPT !.doc = insertAt(st.doc, divider, at),
                   !.v = [@ EXCEPT !.currentInsertPos = posAfterBlock(at, divider)],
                   !.h = [@ EXCEPT !.lastWrite = "divider",
                                   !.lastEnd = endOfWrite(st.doc, divider, at)]]

\* lines 363-372
appendDivider(st, style) ==
    LET at == st.v.currentInsertPos
    IN  IF style = "horizontal-rule"
        THEN [st EXCEPT !.doc = insertAt(st.doc, divider, at),
                        !.v = [@ EXCEPT !.currentInsertPos = posAfterBlock(at, divider)],
                        !.h = [@ EXCEPT !.lastWrite = "divider",
                                        !.lastEnd = endOfWrite(st.doc, divider, at)]]
        ELSE st

\* mutant: the edit cursor is moved whatever the policy
relocateCursorAlways(st, cursorBehavior) ==
    LET at == st.v.currentInsertPos
        st1 == IF at.ch # 0
               THEN [st EXCEPT !.doc = insertAt(st.doc, <<NL>>, at),
                               !.v = [@ EXCEPT !.currentInsertPos = Pos(at.line + 1, 0)],
                               !.h = [@ EXCEPT !.lastWrite = "newline",
                                               !.lastEnd = endOfWrite(st.doc, <<NL>>, at)]]
               ELSE st
    IN  [st1 EXCEPT !.cursor = st1.v.currentInsertPos]

\* lines 502-508
relocateCursor(st, cursorBehavior) ==
    LET at == st.v.currentInsertPos
        st1 == IF at.ch # 0
               THEN [st EXCEPT !.doc = insertAt(st.doc, <<NL>>, at),
                               !.v = [@ EXCEPT !.currentInsertPos = Pos(at.line + 1, 0)],
                               !.h = [@ EXCEPT !.lastWrite = "newline",
                                               !.lastEnd = endOfWrite(st.doc, <<NL>>, at)]]
               ELSE st
    IN  IF cursorBehavior = "end"
        THEN [st1 EXCEPT !.cursor = st1.v.currentInsertPos]
        ELSE st

-----------------------------------------------------------------------------
(* The asynchronous steps of an invocation *)

Commit(i, st) ==
    /\ doc' = st.doc
    /\ inv' = [inv EXCEPT ![i] = st.v]
    /\ hist' = [hist EXCEPT ![i] = st.h]
    /\ notices' = st.notices
    /\ cursor' = st.cursor

Here(i) == St(doc, inv[i], hist[i], notices, cursor)

\* mutant: an error exit leaves the animator running
cancelTimerForgotten(st) == st

\* clearInterval guarded by `if (loadingInterval)`, lines 305, 313, 511
cancelTimer(st) ==
    IF st.v.loadingInterval
    THEN [st EXCEPT !.v = [@ EXCEPT !.timerActive = FALSE],
                    !.h = [@ EXCEPT !.clears = @ + 1]]
    ELSE st

exitWith(st, how) == [st EXCEPT !.v = [@ EXCEPT !.pc = "done", !.exit = how]]

\* mutant: the status is not looked at and the body is read as a stream
ResponseNotOkIgnored(i) ==
    /\ inv[i].pc = "fetch"
    /\ Commit(i, [Here(i) EXCEPT !.v = [@ EXCEPT !.pc = "read"],
                                 !.h = [@ EXCEPT !.answer = "notOk"]])
    /\ UNCHANGED <<settings, requests, userEdits>>

\* lines 304-305: fetch resolved with a status that is not ok
ResponseNotOk(i) ==
    /\ inv[i].pc = "fetch"
    /\ Commit(i, [cancelTimer(Here(i)) EXCEPT !.v = [@ EXCEPT !.pc = "errorText"],
                                               !.h = [@ EXCEPT !.answer = "notOk"]])
    /\ UNCHANGED <<settings, requests, userEdits>>

\* lines 306-309: response.text() resolved
ErrorTextRead(i) ==
    /\ inv[i].pc = "errorText"
    /\ Commit(i, exitWith(notify(Here(i), "Ghost Error: status"), "httpError"))
    /\ UNCHANGED <<settings, requests, userEdits>>

\* lines 312-316: a successful response without a body
ResponseNoBody(i) ==
    /\ inv[i].pc = "fetch"
    /\ Commit(i, exitWith([cancelTimer(Here(i)) EXCEPT
                               !.h = [@ EXCEPT !.answer = "noBody"]],
                          "emptyBody"))
    /\ UNCHANGED <<settings, requests, userEdits>>

\* lines 321-324: a successful response with a body
ResponseOk(i) ==
    /\ inv[i].pc = "fetch"
    /\ inv' = [inv EXCEPT ![i] = [@ EXCEPT !.pc = "read",
                                           !.wire = <<>>,
                                           !.buffer = <<>>,
                                           !.collectedAnnotations = <<>>]]
    /\ hist' = [hist EXCEPT ![i] = [@ EXCEPT !.answer = "ok"]]
    /\ UNCHANGED <<doc, cursor, settings, notices, requests, userEdits>>

\* mutant: the exception handler goes on to finalize the output
ThrowsAndFinalizes(i) ==
    LET style == settings.responseStyle
        st1 == appendDivider(appendSources(notify(cancelTimer(Here(i)),
                                                  "Streaming error."), style), style)
    IN  /\ inv[i].pc \in {"fetch", "errorText", "read"}
        /\ Commit(i, exitWith(relocateCursor(st1, settings.cursorBehavior), "exception"))
        /\ UNCHANGED <<settings, requests, userEdits>>

\* lines 510-514: fetch(), response.text() or reader.read() rejected
Throws(i) ==
    /\ inv[i].pc \in {"fetch", "errorText", "read"}
    /\ Commit(i, exitWith(notify(cancelTimer(Here(i)), "Streaming error."),
                          "exception"))
    /\ UNCHANGED <<settings, requests, userEdits>>

\* mutant: the fragment kept from the round before is not put in front
linesOfNoCarry(buffer, chunk) ==
    LET lines == SplitWire(chunk, <<>>)
    IN  [lines |-> SubSeq(lines, 1, Len(lines) - 1), buffer |-> lines[Len(lines)]]

\* lines 377-385: buffer += chunk; lines = buffer.split('\n'); buffer = lines.pop()
linesOf(buffer, chunk) ==
    LET lines == SplitWire(buffer \o chunk, <<>>)
    IN  [lines |-> SubSeq(lines, 1, Len(lines) - 1), buffer |-> lines[Len(lines)]]

\* the content deltas carried by complete lines (the last of `lines` is not)
RECURSIVE deltasIn(_)
deltasIn(lines) ==
    IF Len(lines) <= 1 THEN <<>>
    ELSE LET l == Head(lines)
             whole == Len(l) = 2 /\ l[1].part = "H" /\ l[2].part = "T" /\ l[1].ev = l[2].ev
         IN  (IF whole /\ l[1].ev.k = "data" /\ l[1].ev.content # <<>>
              THEN <<l[1].ev.content>> ELSE <<>>) \o deltasIn(Tail(lines))

\* the events of the complete lines, as sent (the last of `lines` is not
\* complete)
RECURSIVE eventsIn(_)
eventsIn(lines) ==
    IF Len(lines) <= 1 THEN <<>>
    ELSE <<IF Head(lines) = <<>> THEN Blank ELSE Head(lines)[1].ev>>
             \o eventsIn(Tail(lines))

RECURSIVE annotationsOf(_)
annotationsOf(events) ==
    IF events = <<>> THEN <<>>
    ELSE Head(events).annotations \o annotationsOf(Tail(events))

countOf(events, kind) == Cardinality({k \in 1..Len(events) : events[k].k = kind})

\* lines 327, 377-499: reader.read() resolved with a chunk.  The server has
\* sent the lines of `events` after what it had sent before; the chunk is
\* the next n symbols, and ends at the earliest inside the last line sent.
ReadChunk(i, events, n) ==
    LET full == inv[i].wire \o WireOf(events)
        chunk == SubSeq(full, 1, n)
        rest == SubSeq(full, n + 1, Len(full))
        split == linesOf(inv[i].buffer, chunk)
        got == SplitWire(hist[i].pending \o chunk, <<>>)
        st0 == [Here(i) EXCEPT !.v = [@ EXCEPT !.wire = rest,
                                               !.buffer = split.buffer],
                               !.h = [@ EXCEPT !.arrived = @ \o deltasIn(got),
                                               !.pending = got[Len(got)],
                                               !.arrivedLines = @ + Len(eventsIn(got)),
                                               !.arrivedAnnotations =
                                                   @ \o annotationsOf(eventsIn(got)),
                                               !.arrivedBad =
                                                   @ + countOf(eventsIn(got), "malformed"),
                                               !.arrivedErrors =
                                                   @ + countOf(eventsIn(got), "error"),
                                               !.sent = @ + Len(events)]]
    IN  /\ inv[i].pc = "read"
        /\ hist[i].sent + Len(events) <= MaxEvents
        /\ n \in 1..Min(MaxChunk, Len(full))
        /\ events # <<>> => Len(rest) < Len(WireOf(<<events[Len(events)]>>))
        /\ Commit(i, processLines(st0, split.lines, settings.responseStyle))
        /\ UNCHANGED <<settings, requests, userEdits>>

\* lines 328-375 and 502-508: reader.read() resolved with done
ReadDone(i) ==
    LET style == settings.responseStyle
        st1 == appendDivider(appendSources(Here(i), style), style)
    IN  /\ inv[i].pc = "read"
        \* the server closed the stream, with or without a last line break
        /\ inv[i].wire \in {<<>>, <<NLSym>>}
        /\ Commit(i, exitWith(relocateCursor(st1, settings.cursorBehavior), "finalized"))
        /\ UNCHANGED <<settings, requests, userEdits>>

-----------------------------------------------------------------------------
(* The user *)

\* Edits the user may make while invocation i runs: a line inserted or deleted
\* above, a character typed at the start of the generation line, its first
\* two characters deleted or typed over, and the document cut off above the
\* generation line.
UserEditsOf(i) ==
    LET g == inv[i].generationLine
        end == Pos(lineCount(doc), 0)
    IN  {[text |-> <<NL>>, from |-> Pos(0, 0), to |-> Pos(0, 0)],
         [text |-> <<>>, from |-> Pos(0, 0), to |-> Pos(1, 0)],
         [text |-> <<"u">>, from |-> Pos(g, 0), to |-> Pos(g, 0)],
         [text |-> <<>>, from |-> Pos(g, 0), to |-> Pos(g, 2)],
         [text |-> <<"u", "u">>, from |-> Pos(g, 0), to |-> Pos(g, 2)],
         [text |-> <<>>, from |-> Pos(g - 1, Len(doc[Min(g, Len(doc))])), to |-> end]}

UserEdit(i) ==
    /\ inv[i].pc \in {"fetch", "errorText", "read"}
    /\ userEdits < MaxUserEdits
    /\ \E e \in UserEditsOf(i) :
          /\ doc' = replaceRange(doc, e.text, e.from, e.to)
          /\ doc' # doc
          /\ cursor' = endOfWrite(doc, e.text, e.from)
          \* the change is not itself a trigger (lines 123-131)
          /\ ~endsWith(getLine(doc', cursor'.line), settings.triggerPhrase)
    /\ userEdits' = userEdits + 1
    /\ UNCHANGED <<settings, inv, hist, notices, requests>>

-----------------------------------------------------------------------------
(* Specification: one invocation, the animator, the stream and the user *)

Text1 == << <<"@", "m", " ", "h", "i", ";", ";">> >>
Text2 == << <<"@", "m">>, <<"h", "i", ";", ";">>, <<"z">> >>
Text3 == << <<"h", "i", ";", ";">> >>

InitDocs == {Text1, Text2, Text3}

DefaultTrigger == <<";", ";">>

\* lines 23-38
DEFAULT_SETTINGS ==
    [apiKey |-> <<>>,
     triggerPhrase |-> DefaultTrigger,
     systemPrompt |-> <<>>,
     cursorBehavior |-> "keep",
     responseStyle |-> "plain",
     personas |-> <<>>,
     webSearchPolicy |-> "off",
     webSearchEngine |-> "auto"]

SettingsSet ==
    {[DEFAULT_SETTINGS EXCEPT !.apiKey = k, !.responseStyle = s, !.cursorBehavior = c] :
        k \in {<<>>, <<"k">>}, s \in Styles, c \in {"keep", "end"}}

UrlA == <<"A">>
UrlB == <<"B">>

Events ==
    {Data(<<"a">>, <<>>),
     Data(<<NL, "b">>, <<>>),
     Data(<<"a", NL, "b">>, <<>>),
     Data(<<>>, <<Ann(UrlA, <<"1">>), Ann(UrlA, <<"2">>), Ann(UrlB, <<"3">>)>>),
     ErrorLine, Malformed, DoneLine, Blank}

RECURSIVE SeqsUpTo(_, _)
SeqsUpTo(S, n) ==
    IF n = 0 THEN {<<>>}
    ELSE LET shorter == SeqsUpTo(S, n - 1)
         IN  shorter \cup {Append(q, e) : q \in shorter, e \in S}

\* how many further lines a chunk can reach into: a line is three symbols
NewLines(i) ==
    IF inv[i].pc = "read" THEN Min(MaxEvents - hist[i].sent, (MaxChunk + 2) \div 3) ELSE 0

LineEnds(d) == {Pos(l, Len(getLine(d, l))) : l \in 0..(lineCount(d) - 1)}

Init ==
    /\ doc \in InitDocs
    /\ cursor = Pos(0, 0)
    /\ settings \in SettingsSet
    /\ inv = [i \in AllInvs |-> IdleInv]
    /\ hist = [i \in AllInvs |-> IdleHist]
    /\ notices = <<>>
    /\ requests = <<>>
    /\ userEdits = 0

Next ==
    \/ \E at \in LineEnds(doc) : TriggerCommand(1, at)
    \/ \E at \in LineEnds(doc) : EditorChange(1, at)
    \/ Tick(1)
    \/ ResponseNotOk(1)
    \/ ErrorTextRead(1)
    \/ ResponseNoBody(1)
    \/ ResponseOk(1)
    \/ Throws(1)
    \/ \E events \in SeqsUpTo(Events, NewLines(1)), n \in 1..MaxChunk :
          ReadChunk(1, events, n)
    \/ ReadDone(1)

Spec == Init /\ [][Next]_vars

-----------------------------------------------------------------------------
(* Specification: the same with a user who edits the document meanwhile *)

UserEvents == {Data(<<"a">>, <<>>), Data(<<"a", NL, "b">>, <<>>), Data(<<>>, <<>>)}

InitUser ==
    /\ Init
    /\ doc = Text2
    /\ settings.apiKey # <<>>
    /\ settings.cursorBehavior = "keep"

\* the ends of the lines that end with the trigger phrase
TriggerEnds(d) ==
    {at \in LineEnds(d) : endsWith(getLine(d, at.line), settings.triggerPhrase)}

NextUser ==
    \/ \E at \in TriggerEnds(doc) : TriggerCommand(1, at)
    \/ \E at \in TriggerEnds(doc) : EditorChange(1, at)
    \/ Tick(1)
    \/ ResponseNotOk(1)
    \/ ErrorTextRead(1)
    \/ ResponseNoBody(1)
    \/ ResponseOk(1)
    \/ Throws(1)
    \/ \E events \in SeqsUpTo(UserEvents, NewLines(1)), n \in 1..MaxChunk :
          ReadChunk(1, events, n)
    \/ ReadDone(1)
    \/ UserEdit(1)

SpecUser == InitUser /\ [][NextUser]_vars

-----------------------------------------------------------------------------
(* Specification: the reference parser over small documents, triggered with *)
(* the edit cursor at any position                                          *)

Pieces == {<<"@", "a">>, <<"x">> \o DefaultTrigger}

ParseLines == {Flatten(q) : q \in SeqsUpTo(Pieces, MaxPieces)}

ParseDocs == SeqsUpTo(ParseLines, MaxDocLines) \ {<<>>}

AllPositions(d) ==
    UNION {{Pos(l, c) : c \in 0..Len(d[l + 1])} : l \in 0..(Len(d) - 1)}

InitParse ==
    /\ doc \in ParseDocs
    /\ cursor = Pos(0, 0)
    /\ settings = [DEFAULT_SETTINGS EXCEPT !.apiKey = <<"k">>]
    /\ inv = [i \in AllInvs |-> IdleInv]
    /\ hist = [i \in AllInvs |-> IdleHist]
    /\ notices = <<>>
    /\ requests = <<>>
    /\ userEdits = 0

NextParse ==
    \/ \E at \in AllPositions(doc) : TriggerCommand(1, at)
    \/ \E at \in AllPositions(doc) : EditorChange(1, at)

SpecParse == InitParse /\ [][NextParse]_vars

-----------------------------------------------------------------------------
(* Specification: two invocations on two lines of one document, the second *)
(* triggered while the first is under way or over                          *)

TextTwo == << <<"@", "m", ";", ";">>, <<"@", "n", ";", ";">> >>

TwoEvents == {Data(<<"a">>, <<>>), Data(<<"a", NL, "b">>, <<>>)}

InitTwo ==
    /\ doc = TextTwo
    /\ cursor = Pos(0, 0)
    /\ settings = [DEFAULT_SETTINGS EXCEPT !.apiKey = <<"k">>]
    /\ inv = [i \in AllInvs |-> IdleInv]
    /\ hist = [i \in AllInvs |-> IdleHist]
    /\ notices = <<>>
    /\ requests = <<>>
    /\ userEdits = 0

NextTwo ==
    \/ \E at \in TriggerEnds(doc) : EditorChange(1, at)
    \/ \E at \in TriggerEnds(doc) : Started(1) /\ EditorChange(2, at)
    \/ \E i \in AllInvs : Tick(i)
    \/ \E i \in AllInvs : ResponseOk(i)
    \/ \E i \in AllInvs :
          \E events \in SeqsUpTo(TwoEvents, NewLines(i)), n \in 1..MaxChunk :
              ReadChunk(i, events, n)
    \/ \E i \in AllInvs : ReadDone(i)

SpecTwo == InitTwo /\ [][NextTwo]_vars

-----------------------------------------------------------------------------
(* Specification: one invocation whose stream carries citation annotations: *)
(* several for one URL, some without a URL citation, some without a title  *)

SrcEvents ==
    {Data(<<"a">>, <<>>),
     Data(<<>>, <<Ann(UrlA, <<"1">>), Ann(UrlA, <<"2">>), Ann(UrlB, <<"3">>)>>),
     Data(<<>>, <<AnnNoCite>>),
     Data(<<"b">>, <<Ann(UrlB, <<>>)>>)}

InitSources ==
    /\ Init
    /\ doc = Text1
    /\ settings.apiKey # <<>>

NextSources ==
    \/ \E at \in TriggerEnds(doc) : EditorChange(1, at)
    \/ Tick(1)
    \/ ResponseOk(1)
    \/ Throws(1)
    \/ \E events \in SeqsUpTo(SrcEvents, NewLines(1)), n \in 1..MaxChunk :
          ReadChunk(1, events, n)
    \/ ReadDone(1)

SpecSources == InitSources /\ [][NextSources]_vars

-----------------------------------------------------------------------------
(* Specification: the request an invocation sends, over prompts with and   *)
(* without the +web flag, tokens that are and are not persona names, and   *)
(* every web-search and persona configuration                              *)

ReqDocs ==
    {<< <<"@", "m", " ", "h", ";", ";">> >>,
     << <<"@", "m", " ", "h", " ", "+", "w", "e", "b", " ", ";", ";">> >>,
     << <<"@", "m", " ", "h", " ", "+", "w", "e", "b", " ", "+", "w", "e", "b", ";", ";">> >>,
     << <<"@", "s", " ", "h", "+", "w", "e", "b", ";", ";">> >>,
     << <<"x", " ", "@", "s">>, <<"h", ";", ";">> >>,
     << <<"@", "s", "t", " ", "h", ";", ";">> >>,
     << <<"@", "m", " ", "h", ";", ";", ";", ";">> >>}

\* two personas of one name, and one of another name
PersonaSet ==
    {Persona(<<"s">>, <<"a">>, <<>>),
     Persona(<<"s">>, <<"b">>, <<"S">>),
     Persona(<<"t">>, <<"b">>, <<"S">>)}

ReqSettings ==
    {[DEFAULT_SETTINGS EXCEPT !.apiKey = <<"k">>, !.systemPrompt = g, !.personas = ps,
                              !.webSearchPolicy = wp, !.webSearchEngine = we] :
        g \in {<<>>, <<"G">>},
        ps \in SeqsUpTo(PersonaSet, MaxPersonas),
        wp \in {"always", "trigger", "off"},
        we \in {"auto", "native", "exa"}}

InitRequest ==
    /\ doc \in ReqDocs
    /\ cursor = Pos(0, 0)
    /\ settings \in ReqSettings \cup {[DEFAULT_SETTINGS EXCEPT !.apiKey = <<"k">>]}
    /\ inv = [i \in AllInvs |-> IdleInv]
    /\ hist = [i \in AllInvs |-> IdleHist]
    /\ notices = <<>>
    /\ requests = <<>>
    /\ userEdits = 0

NextRequest ==
    \/ \E at \in LineEnds(doc) : TriggerCommand(1, at)
    \/ \E at \in LineEnds(doc) : EditorChange(1, at)

SpecRequest == InitRequest /\ [][NextRequest]_vars

-----------------------------------------------------------------------------
(* Specification: one trigger by the user, after which the host reports the *)
(* document changes that the invocation itself makes to the same observer   *)

\* a line that ends with the trigger phrase once, and one that ends with it
\* twice
ObserverDocs ==
    {<< <<"@", "m", " ", "h", ";", ";">> >>,
     << <<"@", "m", " ", "h", ";", ";", ";", ";">> >>}

ObserverEvents == {Data(<<"a">>, <<>>)}

InitObserver ==
    /\ doc \in ObserverDocs
    /\ cursor = Pos(0, 0)
    /\ settings \in {[DEFAULT_SETTINGS EXCEPT !.apiKey = <<"k">>, !.triggerPhrase = t] :
                        t \in {DefaultTrigger, <<>>}}
    /\ inv = [i \in AllInvs |-> IdleInv]
    /\ hist = [i \in AllInvs |-> IdleHist]
    /\ notices = <<>>
    /\ requests = <<>>
    /\ userEdits = 0

\* lines 123-132, run for a change that invocation `by` made to the document:
\* the handler reads the edit cursor where it stands and tests the line there
OwnChangeObserved(i, by) ==
    /\ hist[by].lastWrite # "none"
    /\ EditorChange(i, cursor)

NextObserver ==
    \/ \E at \in LineEnds(doc) : EditorChange(1, at)
    \/ OwnChangeObserved(2, 1)
    \/ \E i \in AllInvs : Tick(i)
    \/ ResponseOk(1)
    \/ \E events \in SeqsUpTo(ObserverEvents, NewLines(1)), n \in 1..MaxChunk :
          ReadChunk(1, events, n)
    \/ ReadDone(1)

SpecObserver == InitObserver /\ [][NextObserver]_vars

-----------------------------------------------------------------------------
(* Properties *)

\* C1: with no user edit and no other invocation, after a write of the first
\* content delta, of a later delta, of the Sources block or of the trailing
\* divider, the tracked insert position is the position just after the last
\* character of that write.
C1_PositionAfterLastWrite ==
    (userEdits = 0 /\ ~Started(2)) =>
        (hist[1].lastWrite \in {"first", "delta", "sources", "divider"}
            => inv[1].currentInsertPos = hist[1].lastEnd)

\* a multi-line delta was written after the first one
C1_Witness ==
    /\ hist[1].lastWrite = "delta"
    /\ hist[1].written = <<<<"a">>, <<"a", NL, "b">>>>
    /\ inv[1].currentInsertPos = hist[1].lastEnd
    /\ settings.responseStyle = "callout"

\* the content of the generation line: in callout style what follows the
\* block-quote marker, when the line begins with it
GuardedContent(line, style) ==
    IF style = "callout" /\ startsWith(line, <<">", " ">>)
    THEN SubSeq(line, 3, Len(line))
    ELSE line

BeginsWithGlyph(t) == t # <<>> /\ t[1] \in Glyphs

\* the frame a tick writes: the one after the current frame
NextFrameLine(i, style) ==
    spinnerPrefix(style)
        \o <<spinnerFrames[((inv[i].currentFrameIndex + 1) % 10) + 1]>> \o Generating

\* C2: a tick overwrites the generation line with the next frame if and only
\* if the line exists and its content, after the callout prefix, begins with
\* a spinner glyph; any other tick leaves the document unchanged.
C2_TickWritesIffSpinner ==
    [][\A i \in AllInvs :
          hist'[i].ticks = hist[i].ticks + 1 =>
              LET g == inv[i].generationLine
                  style == settings.responseStyle
              IN  IF g < Len(doc) /\ BeginsWithGlyph(GuardedContent(doc[g + 1], style))
                  THEN /\ doc' = [doc EXCEPT ![g + 1] = NextFrameLine(i, style)]
                       /\ hist'[i].tickWrites = hist[i].tickWrites + 1
                  ELSE /\ doc' = doc
                       /\ hist'[i].tickWrites = hist[i].tickWrites]_vars

\* in callout style the user typed "uu" over the block-quote marker of the
\* generation line, and the one tick since wrote the next frame over it
C2_Witness ==
    /\ settings.responseStyle = "callout"
    /\ userEdits = 1
    /\ cursor = Pos(inv[1].generationLine, 2)
    /\ hist[1].ticks = 1
    /\ hist[1].tickWrites = 1
    /\ doc[inv[1].generationLine + 1]
           = spinnerPrefix("callout") \o getSpinnerText(inv[1].currentFrameIndex)

\* C3: the step that writes the first non-empty content delta cancels the
\* animator with exactly one clearInterval call, and once an invocation is
\* streaming its timer is off and none of its ticks runs or writes.
C3_AnimatorOffWhenStreaming ==
    [][\A i \in AllInvs :
          /\ (inv[i].isFirstChunk /\ ~inv'[i].isFirstChunk) =>
                 /\ inv[i].pc = "read"
                 /\ Len(hist[i].written) = 0 /\ Len(hist'[i].written) > 0
                 /\ hist'[i].clears = hist[i].clears + 1
                 /\ ~inv'[i].timerActive
          /\ Len(hist'[i].written) > 0 => ~inv'[i].isFirstChunk
          /\ ~inv[i].isFirstChunk =>
                 /\ ~inv[i].timerActive /\ ~inv'[i].timerActive
                 /\ hist'[i].ticks = hist[i].ticks
                 /\ hist'[i].tickWrites = hist[i].tickWrites]_vars

\* streaming after ticks and a user edit, with more of the stream to come
C3_Witness ==
    /\ ~inv[1].isFirstChunk
    /\ inv[1].pc = "read"
    /\ hist[1].ticks > 0
    /\ userEdits > 0
    /\ hist[1].clears = 1

\* C4: after the first content delta, after a response that is not ok or has
\* no body, and after an exception, the invocation's timer is off (and with
\* it every later tick).
C4_TimerCancelled ==
    \A i \in AllInvs :
        (\/ ~inv[i].isFirstChunk
         \/ inv[i].pc = "errorText"
         \/ inv[i].exit \in {"httpError", "emptyBody", "exception"})
            => ~inv[i].timerActive

\* an exception while the stream was being read, before any content
C4_Witness ==
    /\ inv[1].exit = "exception"
    /\ hist[1].sent > 0
    /\ inv[1].isFirstChunk
    /\ hist[1].ticks > 0

\* what a response text looks like in the document: in callout style each of
\* its lines behind a block-quote marker, otherwise as it is
StyledLines(text, style) ==
    IF style = "callout"
    THEN [k \in 1..Len(Split(text)) |-> <<">", " ">> \o Split(text)[k]]
    ELSE Split(text)

\* C5: when the first non-empty content delta arrives and the generation
\* line exists, that whole line, whatever it holds by then, is replaced by
\* the styled delta (in plain style the delta as it is); the lines above and
\* below are untouched.
C5_FirstDeltaReplacesLine ==
    [][\A i \in AllInvs :
          (/\ inv[i].isFirstChunk /\ ~inv'[i].isFirstChunk
           /\ Len(hist'[i].written) = 1
           /\ inv[i].generationLine < Len(doc)) =>
              LET g == inv[i].generationLine
              IN  doc' = SubSeq(doc, 1, g)
                             \o StyledLines(hist'[i].written[1], settings.responseStyle)
                             \o SubSeq(doc, g + 2, Len(doc))]_vars

\* the first delta replaced a generation line that the user had made longer
C5_Witness ==
    /\ hist[1].lastWrite = "first"
    /\ Len(hist[1].written) = 1
    /\ userEdits = 1
    /\ hist[1].ticks > 0
    /\ Len(doc) > inv[1].generationLine
    /\ doc[inv[1].generationLine + 1] = <<"a">>

\* the generation region: from the generation line to the line above the
\* text that followed the invocation line
Region(i) == SubSeq(doc, inv[i].generationLine + 1, Len(doc) - hist[i].tailLines)

\* C6: with no user edit, after every content delta the generation region
\* holds the styled concatenation of the deltas received, whatever the
\* places where the response text was cut into deltas.
C6_RegionIsStyledText ==
    (userEdits = 0 /\ ~Started(2)) =>
        ((~inv[1].isFirstChunk /\ inv[1].pc = "read")
            => Region(1) = StyledLines(Flatten(hist[1].written), settings.responseStyle))

\* the text "a\nb" arrived as the two deltas "a" and "\nb"
C6_Witness ==
    /\ hist[1].written = <<<<"a">>, <<NL, "b">>>>
    /\ inv[1].pc = "read"
    /\ settings.responseStyle = "callout"
    /\ Region(1) = StyledLines(<<"a", NL, "b">>, "callout")

\* C7: while an invocation waits for the next chunk, the content deltas it
\* has written are exactly those of the complete lines delivered so far, in
\* the order of their arrival.
C7_WritesInArrivalOrder ==
    \A i \in AllInvs : hist[i].written = hist[i].arrived

\* two different deltas have arrived and been written
C7_Witness ==
    /\ inv[1].pc = "read"
    /\ Len(hist[1].written) = 2
    /\ hist[1].written[1] # hist[1].written[2]
    /\ hist[1].written = hist[1].arrived

\* the places of a line where an @token starts: an "@" before a token character
TokenStarts(line) ==
    {p \in 1..Len(line) : line[p] = "@" /\ p < Len(line) /\ IsTokenChar(line[p + 1])}

\* the last character of the token that starts at p
TokenLast(line, p) ==
    CHOOSE e \in (p + 1)..Len(line) :
        /\ \A k \in (p + 1)..e : IsTokenChar(line[k])
        /\ e = Len(line) \/ ~IsTokenChar(line[e + 1])

MaxOf(S) == CHOOSE x \in S : \A y \in S : y <= x

\* C8: the parser returns the last @token of the first line, going up from
\* the invocation line, that holds a token; with no such line it finds none.
C8_LastTokenOfNearestLine ==
    \A i \in AllInvs : Started(i) =>
        LET d == hist[i].before
            withToken == {l \in 0..inv[i].lineNum : TokenStarts(d[l + 1]) # {}}
        IN  IF withToken = {} THEN inv[i].exit = "noModel"
            ELSE LET l == MaxOf(withToken)
                     p == MaxOf(TokenStarts(d[l + 1]))
                 IN  /\ inv[i].exit # "noModel"
                     /\ inv[i].modelLineNum = l
                     /\ inv[i].modelIndex = p - 1
                     /\ inv[i].model = SubSeq(d[l + 1], p + 1, TokenLast(d[l + 1], p))

\* two tokens on the invocation line, another on the line above
C8_Witness ==
    /\ Started(1)
    /\ hist[1].before = << <<"@", "a", "x", ";", ";">>, <<"@", "a", "@", "a">> >>
    /\ inv[1].lineNum = 1
    /\ inv[1].modelLineNum = 1
    /\ inv[1].model = <<"a">>
    /\ inv[1].modelIndex = 2

\* the tokens of a document as (line, start, end) triples
TokensOf(d) ==
    UNION {{[line |-> l, from |-> p - 1, to |-> TokenLast(d[l + 1], p)] :
               p \in TokenStarts(d[l + 1])} : l \in 0..(Len(d) - 1)}

Later(t, u) == t.line > u.line \/ (t.line = u.line /\ t.from > u.from)

Returned(i) == [line |-> inv[i].modelLineNum, from |-> inv[i].modelIndex,
                to |-> inv[i].modelIndex + 1 + Len(inv[i].model)]

\* C9 as claimed: the reference returned is the nearest token that ends at or
\* before the edit cursor, and none is returned when there is no such token.
C9_NearestBeforeCursor ==
    \A i \in AllInvs : Started(i) =>
        LET at == hist[i].at
            preceding == {t \in TokensOf(hist[i].before) :
                             t.line < at.line \/ (t.line = at.line /\ t.to <= at.ch)}
        IN  IF preceding = {} THEN inv[i].exit = "noModel"
            ELSE /\ Returned(i) \in preceding
                 /\ \A t \in preceding : ~Later(t, Returned(i))

\* C9 amended: the reference returned is the nearest token that starts on the
\* cursor's line or above it, wherever the cursor is on that line; it is
\* never a token of a line below the cursor's.
C9_NearestUpToCursorLine ==
    \A i \in AllInvs : Started(i) =>
        LET at == hist[i].at
            upTo == {t \in TokensOf(hist[i].before) : t.line <= at.line}
        IN  IF upTo = {} THEN inv[i].exit = "noModel"
            ELSE /\ Returned(i) \in upTo
                 /\ \A t \in upTo : ~Later(t, Returned(i))

\* the cursor at the start of a line that holds the only token above a token
\* of the next line
C9_Witness ==
    /\ Started(1)
    /\ hist[1].before = << <<"@", "a">>, <<"@", "a", "x", ";", ";">> >>
    /\ hist[1].at = Pos(0, 0)
    /\ inv[1].modelLineNum = 0
    /\ inv[1].model = <<"a">>

\* C10: when no line from the invocation line up holds a token, or the API
\* key is empty, the invocation ends at once with one notice: the document
\* is as it was (trigger phrase included), no timer and no request.
C10_EarlyReturnTouchesNothing ==
    \A i \in AllInvs : Started(i) =>
        LET d == hist[i].before
            noToken == \A l \in 0..inv[i].lineNum : TokenStarts(d[l + 1]) = {}
        IN  (noToken \/ settings.apiKey = <<>>) =>
                /\ inv[i].pc = "done"
                /\ inv[i].exit = IF noToken THEN "noModel" ELSE "noKey"
                /\ doc = d
                /\ ~inv[i].timerActive /\ ~inv[i].loadingInterval
                /\ hist[i].ticks = 0
                /\ hist[i].lastWrite = "none"
                /\ requests = <<>>
                /\ Len(notices) = 1

\* an invocation with a token but no API key, on a line that ends with the
\* trigger phrase
C10_Witness ==
    /\ inv[1].exit = "noKey"
    /\ inv[1].model = <<"m">>
    /\ endsWith(doc[inv[1].lineNum + 1], settings.triggerPhrase)

\* the lines a style puts between the invocation line and the generation line
LeadLines(style) ==
    IF style = "horizontal-rule" THEN << <<>>, <<"-", "-", "-">>, <<>> >>
    ELSE IF style = "callout"
         THEN << <<>>, <<">", " ", "[", "!", "a", "i", "]", " ", "G", "h", "o", "s", "t">> >>
    ELSE << <<>> >>

\* the invocation line without the trigger phrase at its end
Untriggered(line) ==
    IF endsWith(line, settings.triggerPhrase)
    THEN SubSeq(line, 1, Len(line) - Len(settings.triggerPhrase))
    ELSE line

\* the document of invocation i with nothing but its placeholder in it, at
\* the frame the animator showed last
PlaceholderDoc(i) ==
    LET d == hist[i].before
        n == inv[i].lineNum
        style == settings.responseStyle
    IN  SubSeq(d, 1, n) \o <<Untriggered(d[n + 1])>> \o LeadLines(style)
            \o <<spinnerPrefix(style) \o <<spinnerFrames[inv[i].currentFrameIndex + 1]>>
                    \o Generating>>
            \o SubSeq(d, n + 2, Len(d))

\* what holds of an invocation whose request was answered with a status that
\* is not ok, whatever the notice: timer off, stream never read, no edit,
\* the placeholder in the document as last written
HttpErrorStops(i) ==
    /\ ~inv[i].timerActive
    /\ inv[i].pc \in {"errorText", "done"}
    /\ hist[i].sent = 0 /\ hist[i].written = <<>>
    /\ hist[i].lastWrite \in {"placeholder", "tick"}
    /\ doc = PlaceholderDoc(i)

\* C11 as claimed: after an answer with a non-successful status the timer is
\* off, the stream is never read, the invocation edits nothing and the
\* placeholder stays as last written; and when the invocation has ended, a
\* notice with the status code has been shown.
C11_HttpErrorNoticeWithStatus ==
    \A i \in AllInvs : hist[i].answer = "notOk" =>
        /\ HttpErrorStops(i)
        /\ inv[i].pc = "done" => notices = <<"Ghost Error: status">>

\* C11 amended: the same, with the notice that carries the status code shown
\* when the body of the error response has been read; when reading that body
\* fails, the notice shown is the one of a streaming error.
C11_HttpErrorStopsInvocation ==
    \A i \in AllInvs : hist[i].answer = "notOk" =>
        /\ HttpErrorStops(i)
        /\ inv[i].pc = "done" =>
               \/ inv[i].exit = "httpError" /\ notices = <<"Ghost Error: status">>
               \/ inv[i].exit = "exception" /\ notices = <<"Streaming error.">>

\* an HTTP error after the animator had moved on from frame 0
C11_Witness ==
    /\ hist[1].answer = "notOk"
    /\ inv[1].exit = "httpError"
    /\ hist[1].tickWrites > 0
    /\ inv[1].currentFrameIndex > 0
    /\ notices = <<"Ghost Error: status">>

\* C12: an invocation that has left through an error exit (HTTP error, a
\* response without body, an exception) has cancelled its animator and has
\* shown a notice.
C12_ErrorExitShowsNotice ==
    \A i \in AllInvs :
        inv[i].exit \in {"httpError", "emptyBody", "exception"} =>
            /\ ~inv[i].timerActive
            /\ Len(hist[i].atNotice) > 0

\* a successful response without body ended the invocation after a tick, and
\* no notice was ever shown
C12_Witness ==
    /\ inv[1].exit = "emptyBody"
    /\ hist[1].answer = "noBody"
    /\ hist[1].ticks > 0
    /\ ~inv[1].timerActive
    /\ notices = <<>>

\* C13: the step in which an exception ends an invocation that was waiting
\* for the response or reading the stream turns the timer off and shows the
\* streaming-error notice, and leaves the document, the edit cursor and the
\* tracked position as they were: what was written stays, and no Sources
\* block, divider or line break is added; nothing is done afterwards either.
C13_ExceptionAbortsWithoutFinalizing ==
    [][\A i \in AllInvs :
          /\ (inv[i].pc \in {"fetch", "read"} /\ inv'[i].exit = "exception") =>
                 /\ inv'[i].pc = "done"
                 /\ ~inv'[i].timerActive
                 /\ notices' = Append(notices, "Streaming error.")
                 /\ doc' = doc
                 /\ cursor' = cursor
                 /\ inv'[i].currentInsertPos = inv[i].currentInsertPos
                 /\ hist'[i].lastWrite = hist[i].lastWrite
                 /\ hist'[i].written = hist[i].written
          /\ inv[i].exit = "exception" =>
                 /\ doc' = doc /\ cursor' = cursor /\ notices' = notices
                 /\ inv'[i] = inv[i]]_vars

\* an exception after content and citations had arrived, in divider style
\* with the cursor to be moved to the end
C13_Witness ==
    /\ inv[1].exit = "exception"
    /\ hist[1].written = <<<<"a">>>>
    /\ Len(inv[1].collectedAnnotations) > 0
    /\ settings.responseStyle = "horizontal-rule"
    /\ settings.cursorBehavior = "end"
    /\ hist[1].lastWrite = "first"
    /\ cursor = hist[1].at

\* C14: whenever an invocation shows a notice (for an HTTP error, an in-band
\* error line or an exception), its animator timer is off at that moment.
C14_TimerOffAtNotice ==
    \A i \in AllInvs :
        \A k \in 1..Len(hist[i].atNotice) : ~hist[i].atNotice[k]

\* the notice of an in-band error line was shown while the timer was running,
\* and the invocation still waits for its first content
C14_Witness ==
    /\ notices = <<"Stream Error">>
    /\ hist[1].atNotice = <<TRUE>>
    /\ inv[1].pc = "read"
    /\ inv[1].isFirstChunk
    /\ inv[1].timerActive

\* C15: a step of the read loop in which every line handled is a data line
\* that is not JSON changes neither the document nor the tracked position,
\* the first-chunk flag, the collected annotations, the timer or the
\* notices, and the loop goes on; and after such a line every content delta
\* of the later complete lines is still written, in order.
C15_MalformedLineSkipped ==
    [][\A i \in AllInvs :
          /\ (/\ hist'[i].skipped > hist[i].skipped
              /\ hist'[i].lines - hist[i].lines = hist'[i].skipped - hist[i].skipped) =>
                 /\ doc' = doc
                 /\ cursor' = cursor
                 /\ notices' = notices
                 /\ inv'[i].pc = "read"
                 /\ inv'[i].currentInsertPos = inv[i].currentInsertPos
                 /\ inv'[i].isFirstChunk = inv[i].isFirstChunk
                 /\ inv'[i].collectedAnnotations = inv[i].collectedAnnotations
                 /\ inv'[i].timerActive = inv[i].timerActive
                 /\ inv'[i].loadingInterval = inv[i].loadingInterval
                 /\ hist'[i].written = hist[i].written
          /\ hist'[i].skipped > 0 => hist'[i].written = hist'[i].arrived]_vars

\* a content delta was written after a data line that was not JSON, and the
\* stream was finalized
C15_Witness ==
    /\ hist[1].skipped = 1
    /\ hist[1].lines = 2
    /\ hist[1].written = <<<<"a">>>>
    /\ hist[1].lastWrite = "first"
    /\ inv[1].exit = "finalized"

\* C16: every in-band error line handled has given one "Stream Error"
\* notice, and it ends nothing: the content deltas of all complete lines
\* delivered, those after the error line too, are written in order with the
\* tracked position just after the last one, and the invocation ends only
\* by finalizing the stream when it ends (or by an exception).
C16_ErrorLineDoesNotAbort ==
    \A i \in AllInvs : hist[i].errorLines > 0 =>
        /\ Cardinality({k \in 1..Len(notices) : notices[k] = "Stream Error"})
               = hist[i].errorLines
        /\ hist[i].written = hist[i].arrived
        /\ hist[i].lastWrite \in {"first", "delta"}
               => inv[i].currentInsertPos = hist[i].lastEnd
        /\ inv[i].pc \in {"read", "done"}
        /\ inv[i].pc = "done" => inv[i].exit \in {"finalized", "exception"}
        /\ inv[i].exit = "exception" => notices[Len(notices)] = "Streaming error."

\* an error line came first, the content delta after it was written, and the
\* stream was finalized with its divider
C16_Witness ==
    /\ hist[1].errorLines = 1
    /\ hist[1].atNotice = <<TRUE>>
    /\ hist[1].written = <<<<"a", NL, "b">>>>
    /\ inv[1].exit = "finalized"
    /\ hist[1].lastWrite = "divider"

\* the orchestrator state of an invocation; ReferenceResolved lasts only
\* within the synchronous run that goes on to insert the placeholder
Phase(v) ==
    IF v.pc = "idle" THEN "Idle"
    ELSE IF v.pc = "done" /\ v.exit = "finalized" THEN "Finalized"
    ELSE IF v.pc \in {"done", "errorText"} THEN "ErrorExit"
    ELSE IF v.isFirstChunk THEN "AwaitingFirstByte"
    ELSE "Streaming"

PhaseOrder ==
    {<<"Idle", "AwaitingFirstByte">>, <<"AwaitingFirstByte", "Streaming">>,
     <<"Streaming", "Finalized">>,
     <<"Idle", "ErrorExit">>, <<"AwaitingFirstByte", "ErrorExit">>,
     <<"Streaming", "ErrorExit">>}

\* C17: an invocation changes state only along Idle, (ReferenceResolved,)
\* AwaitingFirstByte, Streaming, Finalized, or by an error exit; Finalized is
\* entered from Streaming only, after a first content delta was written.
C17_PhaseOrder ==
    [][\A i \in AllInvs :
          /\ Phase(inv'[i]) # Phase(inv[i]) =>
                 <<Phase(inv[i]), Phase(inv'[i])>> \in PhaseOrder
          /\ Phase(inv'[i]) = "Finalized" =>
                 /\ ~inv'[i].isFirstChunk
                 /\ hist'[i].written # <<>>]_vars

\* the stream ended before any content: the divider was written above the
\* placeholder, and the invocation is finalized with its timer running
C17_Witness ==
    /\ inv[1].exit = "finalized"
    /\ inv[1].isFirstChunk
    /\ hist[1].written = <<>>
    /\ hist[1].lastWrite = "divider"
    /\ inv[1].timerActive
    /\ hist[1].lines > 0

\* what invocation i wrote, as lines of the document
Output(i) == Split(Flatten(hist[i].written))

\* the invocation that was triggered on the line with the token `model`
InvOf(model) == CHOOSE i \in AllInvs : inv[i].model = model

\* the document with each response under its own prompt line
TwoRegionsDoc ==
    << <<"@", "m">>, <<>> >> \o Output(InvOf(<<"m">>))
        \o << <<"@", "n">>, <<>> >> \o Output(InvOf(<<"n">>))

\* C18: two invocations on different lines each keep a tracked position and
\* a timer of their own, and once both have received content and are
\* finalized the document holds each prompt line followed by the content of
\* its own invocation, in whatever order triggers, ticks and deltas came.
C18_EachInItsOwnRegion ==
    /\ \A i \in AllInvs :
           (inv[i].pc = "read" /\ ~inv[i].isFirstChunk) => ~inv[i].timerActive
    /\ (\A i \in AllInvs : inv[i].exit = "finalized" /\ hist[i].written # <<>>)
           => doc = TwoRegionsDoc

\* the second invocation, triggered on the upper line, shifted the lower
\* one's generation line, and the first delta of the lower invocation was
\* written over its own prompt line
C18_Witness ==
    /\ inv[1].model = <<"n">>
    /\ inv[2].model = <<"m">>
    /\ hist[1].lastWrite = "first"
    /\ \A l \in 1..Len(doc) : doc[l] # <<"@", "n">>
    /\ \E l \in 1..Len(doc) : doc[l] = getSpinnerText(0)

\* the lines that hold what invocation i has inserted below its invocation
\* line: its generation region, without the empty line that moving the
\* cursor to the end adds after it
Inserted(i) ==
    IF hist[i].lastWrite = "newline"
    THEN SubSeq(Region(i), 1, Len(Region(i)) - 1)
    ELSE Region(i)

\* C19: with no user edit, in callout style every line an invocation has
\* inserted content into starts with the block-quote marker, so that every
\* line break inside inserted content is followed by it (the generation line
\* is empty instead when a Sources block was put in front of the placeholder
\* before any content); in plain and divider styles the lines from the
\* generation line on are the content received, as it is.
C19_CalloutLinesQuoted ==
    (/\ userEdits = 0 /\ ~Started(2)
     /\ \/ inv[1].pc \in {"fetch", "errorText", "read"}
        \/ inv[1].exit \in {"httpError", "emptyBody", "exception", "finalized"}) =>
            IF settings.responseStyle = "callout"
            THEN \A k \in 1..Len(Inserted(1)) :
                     \/ startsWith(Inserted(1)[k], <<">", " ">>)
                     \/ /\ k = 1
                        /\ Inserted(1)[k] = <<>>
                        /\ hist[1].written = <<>>
                        /\ hist[1].lastWrite \in {"sources", "newline"}
            ELSE hist[1].written # <<>> =>
                     SubSeq(Inserted(1), 1, Len(Output(1))) = Output(1)

\* callout style: a two-line delta and then the Sources block
C19_Witness ==
    /\ settings.responseStyle = "callout"
    /\ hist[1].written = <<<<"a", NL, "b">>>>
    /\ hist[1].lastWrite = "sources"
    /\ inv[1].exit = "finalized"
    /\ Len(Inserted(1)) = 7
    /\ Inserted(1)[2] = <<">", " ", "b">>

\* the places of the line breaks of a text
Breaks(t) == {k \in 1..Len(t) : t[k] = NL}

\* the rule of C20: where the tracked position goes when text t is inserted
\* at it
Advance(pos, t) ==
    IF Breaks(t) = {}
    THEN Pos(pos.line, pos.ch + Len(t))
    ELSE Pos(pos.line + Cardinality(Breaks(t)), Len(t) - MaxOf(Breaks(t)))

\* the text inserted for a content delta
InsertedText(content, first, style) ==
    IF style = "callout"
    THEN (IF first THEN <<">", " ">> ELSE <<>>) \o QuoteNewlines(content)
    ELSE content

\* the rule applied to the deltas of one chunk, one after the other
RECURSIVE AdvanceAll(_, _, _, _)
AdvanceAll(pos, first, contents, style) ==
    IF contents = <<>> THEN pos
    ELSE AdvanceAll(Advance(pos, InsertedText(Head(contents), first, style)),
                    FALSE, Tail(contents), style)

\* C20: with no user edit, a step that writes content deltas moves the
\* tracked position by the rule, delta after delta, starting for the first
\* delta at column 0 of the generation line: no line break in the inserted
\* text, the column advances by its length; otherwise the line advances by
\* the number of line breaks and the column is the length of what follows
\* the last one.  The same holds of the trailing divider.
C20_PositionRecomputed ==
    [][(userEdits = 0 /\ ~Started(2)) =>
          /\ (inv[1].pc = "read" /\ inv'[1].pc = "read") =>
                 inv'[1].currentInsertPos =
                     AdvanceAll(IF inv[1].isFirstChunk
                                THEN Pos(inv[1].generationLine, 0)
                                ELSE inv[1].currentInsertPos,
                                inv[1].isFirstChunk,
                                SubSeq(hist'[1].written, Len(hist[1].written) + 1,
                                       Len(hist'[1].written)),
                                settings.responseStyle)
          /\ (/\ inv[1].pc = "read" /\ inv'[1].exit = "finalized"
              /\ inv[1].collectedAnnotations = <<>>
              /\ settings.responseStyle = "horizontal-rule"
              /\ settings.cursorBehavior = "keep") =>
                 inv'[1].currentInsertPos
                     = Advance(inv[1].currentInsertPos, <<NL, NL, "-", "-", "-">>)]_vars

\* the two-line delta "a\nb" written after the delta "a": one line down,
\* column 1
C20_Witness ==
    /\ settings.responseStyle = "plain"
    /\ hist[1].written = <<<<"a">>, <<"a", NL, "b">>>>
    /\ inv[1].pc = "read"
    /\ inv[1].currentInsertPos = Pos(inv[1].generationLine + 1, 1)
    /\ doc[inv[1].generationLine + 1] = <<"a", "a">>
    /\ doc[inv[1].generationLine + 2] = <<"b">>

\* C21: the step that inserts the placeholder leaves it, at animation frame 0
\* (behind the block-quote marker in callout style), on the line at index
\* invocation line + offset (2 plain, 4 divider, 3 callout), which exists,
\* with the tracked position at column 0 of that line; the text that followed
\* the invocation line follows the placeholder, whether or not a trigger
\* phrase was stripped.
C21_PlaceholderOnGenerationLine ==
    [][\A i \in AllInvs :
          (inv[i].pc = "idle" /\ inv'[i].pc = "fetch") =>
              LET n == inv'[i].lineNum
                  style == settings.responseStyle
                  g == n + (IF style = "plain" THEN 2
                            ELSE IF style = "horizontal-rule" THEN 4 ELSE 3)
              IN  /\ inv'[i].generationLine = g
                  /\ Len(doc') > g
                  /\ doc'[g + 1] = (IF style = "callout" THEN <<">", " ">> ELSE <<>>)
                                       \o <<"f0">> \o Generating
                  /\ inv'[i].currentInsertPos = Pos(g, 0)
                  /\ SubSeq(doc', 1, n) = SubSeq(doc, 1, n)
                  /\ doc'[n + 1] = Untriggered(doc[n + 1])
                  /\ SubSeq(doc', g + 2, Len(doc')) = SubSeq(doc, n + 2, Len(doc))]_vars

\* callout style, the trigger phrase stripped from a line that has a line of
\* text below it: the placeholder is three lines down, the text after it
C21_Witness ==
    /\ settings.responseStyle = "callout"
    /\ inv[1].pc = "fetch"
    /\ hist[1].ticks = 0
    /\ hist[1].before = Text2
    /\ inv[1].lineNum = 1
    /\ inv[1].currentInsertPos = Pos(4, 0)
    /\ doc[2] = <<"h", "i">>
    /\ doc[5] = <<">", " ", "f0">> \o Generating
    /\ doc[6] = <<"z">>

\* the URLs of the citation annotations invocation i has collected
CitedUrls(i) ==
    {inv[i].collectedAnnotations[k].url :
        k \in {j \in 1..Len(inv[i].collectedAnnotations) :
                   inv[i].collectedAnnotations[j].cite}}

\* the lines of the document that are the heading of a Sources list
HeadingLines ==
    {l \in 1..Len(doc) :
        GuardedContent(doc[l], settings.responseStyle)
            = <<"*", "*", "S", "o", "u", "r", "c", "e", "s", ":", "*", "*">>}

\* the lines of the document that are entries of a Sources list
EntryLines ==
    {l \in 1..Len(doc) :
        startsWith(GuardedContent(doc[l], settings.responseStyle), <<"-", " ", "[">>)}

\* the entries for URL u: the lines that end with "](u)"
EntriesFor(u) ==
    {l \in EntryLines : endsWith(doc[l], <<"]", "(">> \o u \o <<")">>)}

\* C22: the document holds at most one Sources list of the invocation, and
\* holds one exactly when the stream was finalized with at least one URL
\* citation among the collected annotations; the list has exactly one entry
\* for each distinct URL cited and no other entry.
C22_OneEntryPerUrl ==
    /\ Cardinality(HeadingLines) <= 1
    /\ HeadingLines # {} <=> (inv[1].exit = "finalized" /\ CitedUrls(1) # {})
    /\ HeadingLines = {} => EntryLines = {}
    /\ HeadingLines # {} =>
           /\ Cardinality(EntryLines) = Cardinality(CitedUrls(1))
           /\ \A u \in CitedUrls(1) : Cardinality(EntriesFor(u)) = 1
           /\ \A l \in EntryLines : \A h \in HeadingLines : l > h

\* the annotations for the URLs A, A, B were collected and the list rendered
\* with two entries
C22_Witness ==
    /\ inv[1].exit = "finalized"
    /\ Len(inv[1].collectedAnnotations) = 3
    /\ CitedUrls(1) = {UrlA, UrlB}
    /\ Cardinality(EntryLines) = 2
    /\ Cardinality(HeadingLines) = 1

\* the title of the first citation of URL u that invocation i collected (the
\* URL itself when that citation has no title)
FirstTitle(i, u) ==
    LET anns == inv[i].collectedAnnotations
        first == CHOOSE k \in 1..Len(anns) :
                     /\ anns[k].cite /\ anns[k].url = u
                     /\ \A j \in 1..(k - 1) : ~(anns[j].cite /\ anns[j].url = u)
    IN  IF anns[first].title # <<>> THEN anns[first].title ELSE u

\* C23: in the rendered Sources list the entry of each URL carries the title
\* of the first annotation collected for that URL.
C23_FirstSeenTitleWins ==
    HeadingLines # {} =>
        \A u \in CitedUrls(1) :
            \E l \in EntryLines :
                GuardedContent(doc[l], settings.responseStyle)
                    = <<"-", " ", "[">> \o FirstTitle(1, u) \o <<"]", "(">> \o u \o <<")">>

\* URL A was cited with title 1 and then with title 2: its entry reads 2
C23_Witness ==
    /\ inv[1].exit = "finalized"
    /\ settings.responseStyle = "plain"
    /\ inv[1].collectedAnnotations
           = <<Ann(UrlA, <<"1">>), Ann(UrlA, <<"2">>), Ann(UrlB, <<"3">>)>>
    /\ \E l \in EntryLines : doc[l] = <<"-", " ", "[", "2", "]", "(", "A", ")">>
    /\ \A l \in EntryLines : doc[l] # <<"-", " ", "[", "1", "]", "(", "A", ")">>

\* the lines of the document that begin with a divider
RuleLines == {l \in 1..Len(doc) : startsWith(doc[l], <<"-", "-", "-">>)}

\* the invocation has inserted its placeholder
Placed(i) ==
    \/ inv[i].pc \in {"fetch", "errorText", "read"}
    \/ inv[i].exit \in {"httpError", "emptyBody", "exception", "finalized"}

\* C24: in plain and callout styles the document never gets a divider.  In
\* divider style it holds the leading divider from the placeholder on, and a
\* second, trailing one exactly when the stream was finalized, never after an
\* error exit; the trailing divider is below the Sources list, if any, and
\* the tracked position is just after it (on the fresh line below it when
\* the cursor was moved to the end).
C24_DividerOnceOnCompletion ==
    /\ settings.responseStyle # "horizontal-rule" => RuleLines = {}
    /\ settings.responseStyle = "horizontal-rule" =>
           /\ Cardinality(RuleLines) = IF inv[1].exit = "finalized" THEN 2
                                       ELSE IF Placed(1) THEN 1 ELSE 0
           /\ inv[1].exit = "finalized" =>
                  LET l == MaxOf(RuleLines)
                  IN  /\ \A h \in HeadingLines \cup EntryLines : h < l
                      /\ l > inv[1].generationLine
                      /\ inv[1].currentInsertPos
                             = IF settings.cursorBehavior = "end"
                               THEN Pos(l, 0) ELSE Pos(l - 1, 3)

\* divider style: content, then the Sources list, then the trailing divider
C24_Witness ==
    /\ settings.responseStyle = "horizontal-rule"
    /\ settings.cursorBehavior = "keep"
    /\ inv[1].exit = "finalized"
    /\ hist[1].written = <<<<"a">>>>
    /\ Cardinality(EntryLines) = 2
    /\ Cardinality(RuleLines) = 2
    /\ doc[Len(doc)] = <<"-", "-", "-">>
    /\ inv[1].currentInsertPos = Pos(Len(doc) - 1, 3)

\* document d with a line break put in at position p
BrokenAt(d, p) ==
    SubSeq(d, 1, p.line)
        \o <<SubSeq(d[p.line + 1], 1, p.ch),
              SubSeq(d[p.line + 1], p.ch + 1, Len(d[p.line + 1]))>>
        \o SubSeq(d, p.line + 2, Len(d))

\* C25: with no user edit, the step that finalizes a stream under the policy
\* "move to end" sets the edit cursor to the tracked position, which is then
\* column 0 of the last line of the generation region, below everything the
\* invocation wrote (an empty line when content was written); when nothing
\* else is appended in that step, the document gets a line break at the
\* tracked position if its column was not 0 and is unchanged otherwise.  No
\* other step of a started invocation changes the edit cursor: none under
\* the policy "keep", and none that ends in an error exit.
C25_CursorMovedOnlyAtEnd ==
    [][(userEdits = 0 /\ ~Started(2)) =>
          LET p == inv[1].currentInsertPos
              finalizes == inv[1].pc = "read" /\ inv'[1].exit = "finalized"
          IN  /\ (finalizes /\ settings.cursorBehavior = "end") =>
                     /\ cursor' = inv'[1].currentInsertPos
                     /\ cursor'.ch = 0
                     /\ cursor'.line = Len(doc') - hist[1].tailLines - 1
                     /\ hist'[1].written # <<>> => doc'[cursor'.line + 1] = <<>>
                     /\ (CitedUrls(1) = {} /\ settings.responseStyle # "horizontal-rule") =>
                            IF p.ch # 0
                            THEN doc' = BrokenAt(doc, p) /\ cursor' = Pos(p.line + 1, 0)
                            ELSE doc' = doc /\ cursor' = p
              /\ (Started(1) /\ ~(finalizes /\ settings.cursorBehavior = "end")) =>
                     cursor' = cursor]_vars

\* the stream "a" was finalized under "move to end": a line break after the
\* "a", and the edit cursor on the empty line below it
C25_Witness ==
    /\ settings.cursorBehavior = "end"
    /\ settings.responseStyle = "plain"
    /\ inv[1].exit = "finalized"
    /\ hist[1].written = <<<<"a">>>>
    /\ hist[1].lastWrite = "newline"
    /\ cursor = Pos(inv[1].generationLine + 1, 0)
    /\ doc[inv[1].generationLine + 1] = <<"a">>
    /\ doc[inv[1].generationLine + 2] = <<>>

\* C26: whatever the chunks the stream is delivered in, what an invocation
\* has processed is what the newline-terminated lines delivered so far hold:
\* each of them was taken up exactly once, when its line break had arrived,
\* and as a whole (no fragment was ever parsed: the only lines that failed
\* to parse are those sent that way), their content deltas were written and
\* their annotations collected in order, and what was delivered after the
\* last line break waits in the buffer.
C26_FramingIndependentOfChunks ==
    \A i \in AllInvs :
        /\ hist[i].lines = hist[i].arrivedLines
        /\ hist[i].written = hist[i].arrived
        /\ hist[i].skipped = hist[i].arrivedBad
        /\ hist[i].errorLines = hist[i].arrivedErrors
        /\ hist[i].answer = "ok" =>
               /\ inv[i].collectedAnnotations = hist[i].arrivedAnnotations
               /\ inv[i].buffer = hist[i].pending

\* a chunk ended inside the second line: the first line was written, the
\* beginning of the second waits in the buffer, unprocessed
C26_Witness ==
    /\ inv[1].pc = "read"
    /\ hist[1].arrivedLines = 1
    /\ hist[1].lines = 1
    /\ hist[1].written = <<<<"a">>>>
    /\ hist[1].pending = <<Sym("H", Data(<<"a", NL, "b">>, <<>>))>>
    /\ inv[1].buffer = hist[1].pending

\* the text between the reference and the trigger phrase (or the end of the
\* invocation line), without the white space around it
TypedPrompt(i) ==
    LET d == hist[i].before
        n == inv[i].lineNum
        from == Pos(inv[i].modelLineNum, inv[i].modelIndex + 1 + Len(inv[i].model))
    IN  trim(getRange(d, from, Pos(n, Len(Untriggered(d[n + 1])))))

\* the request invocation i sent
RequestOf(i) == (CHOOSE r \in {requests[k] : k \in 1..Len(requests)} : r.by = i).body

Sent(i) == \E k \in 1..Len(requests) : requests[k].by = i

\* the request asks for a web search
AsksForSearch(body) ==
    /\ "plugins" \in DOMAIN body
    /\ \E k \in 1..Len(body.plugins) : body.plugins[k].id = "web"

\* C27: a request carries the web-search plugin exactly when the policy is
\* "always", or is "trigger" and the prompt ended with the +web flag, never
\* under "off"; the plugin names the engine for "native" and "exa" and has no
\* engine for "auto".
C27_SearchPluginByPolicy ==
    \A i \in AllInvs : Sent(i) =>
        LET body == RequestOf(i)
            flagged == endsWith(TypedPrompt(i), <<"+", "w", "e", "b">>)
        IN  /\ AsksForSearch(body)
                   <=> \/ settings.webSearchPolicy = "always"
                       \/ settings.webSearchPolicy = "trigger" /\ flagged
            /\ settings.webSearchPolicy = "off" => "plugins" \notin DOMAIN body
            /\ AsksForSearch(body) =>
                   /\ Len(body.plugins) = 1
                   /\ IF settings.webSearchEngine = "auto"
                      THEN "engine" \notin DOMAIN body.plugins[1]
                      ELSE /\ "engine" \in DOMAIN body.plugins[1]
                           /\ body.plugins[1].engine = settings.webSearchEngine

\* policy "trigger", engine "exa", and a prompt that ends with +web
C27_Witness ==
    /\ Sent(1)
    /\ settings.webSearchPolicy = "trigger"
    /\ settings.webSearchEngine = "exa"
    /\ endsWith(TypedPrompt(1), <<"+", "w", "e", "b">>)
    /\ RequestOf(1).plugins = <<[id |-> "web", engine |-> "exa"]>>

\* the prompt invocation i sent: the content of the user message
PromptSent(i) == RequestOf(i).messages[2].content

\* C28: the prompt sent is what stripping the +web marker gave, and stripping
\* it again changes nothing and finds no flag; a typed prompt that does not
\* end with the marker is sent as it is, with the flag unset.
C28_StripIdempotentAndLossless ==
    \A i \in AllInvs : Sent(i) =>
        /\ PromptSent(i) = inv[i].prompt
        /\ stripWeb(PromptSent(i)) = [prompt |-> PromptSent(i), hasWebFlag |-> FALSE]
        /\ ~endsWith(TypedPrompt(i), <<"+", "w", "e", "b">>) =>
               /\ PromptSent(i) = TypedPrompt(i)
               /\ ~inv[i].hasWebFlag

\* the prompt "h +web +web": one marker was stripped, the prompt sent still
\* ends with the other
C28_Witness ==
    /\ Sent(1)
    /\ TypedPrompt(1) = <<"h", " ", "+", "w", "e", "b", " ", "+", "w", "e", "b">>
    /\ inv[1].hasWebFlag
    /\ PromptSent(1) = <<"h", " ", "+", "w", "e", "b">>
    /\ stripWeb(PromptSent(1)).hasWebFlag

\* C29: a request for a prompt that ended with +web asks for a web search,
\* whatever the settings.
C29_WebFlagAlwaysSearches ==
    \A i \in AllInvs :
        (Sent(i) /\ endsWith(TypedPrompt(i), <<"+", "w", "e", "b">>))
            => AsksForSearch(RequestOf(i))

\* the default settings with an API key: the prompt "h +web" was sent as "h"
\* in a request without the web-search plugin
C29_Witness ==
    /\ settings = [DEFAULT_SETTINGS EXCEPT !.apiKey = <<"k">>]
    /\ Sent(1)
    /\ TypedPrompt(1) = <<"h", " ", "+", "w", "e", "b">>
    /\ inv[1].hasWebFlag
    /\ PromptSent(1) = <<"h">>
    /\ "plugins" \notin DOMAIN RequestOf(1)

\* the positions in the persona list of the personas named by the token of
\* invocation i
NamedBy(i) ==
    {k \in 1..Len(settings.personas) : settings.personas[k].name = inv[i].model}

MinOf(S) == CHOOSE x \in S : \A y \in S : x <= y

\* the system message for an instruction: the instruction and an empty line,
\* if there is an instruction, then the note's text before the reference
SystemMessage(i, instruction) ==
    (IF instruction = <<>> THEN <<>> ELSE instruction \o <<NL, NL>>)
        \o <<"Context from the current note:", NL>>
        \o getRange(hist[i].before, Pos(0, 0), Pos(inv[i].modelLineNum, inv[i].modelIndex))

\* C30: when some persona has exactly the token as its name, the request
\* goes to the model of the first such persona of the list, with that
\* persona's system prompt as instruction, also when it is empty, and never
\* the global one; otherwise it goes to the model named by the token itself,
\* with the global system prompt.
C30_PersonaResolution ==
    \A i \in AllInvs : Sent(i) =>
        LET body == RequestOf(i)
        IN  IF NamedBy(i) # {}
            THEN LET persona == settings.personas[MinOf(NamedBy(i))]
                 IN  /\ body.model = persona.model
                     /\ body.messages[1].content = SystemMessage(i, persona.systemPrompt)
            ELSE /\ body.model = inv[i].model
                 /\ body.messages[1].content = SystemMessage(i, settings.systemPrompt)

\* two personas named "s": the first, with an empty system prompt, decides,
\* and the global system prompt is not sent
C30_Witness ==
    /\ Sent(1)
    /\ inv[1].model = <<"s">>
    /\ settings.systemPrompt = <<"G">>
    /\ settings.personas = <<Persona(<<"s">>, <<"a">>, <<>>),
                             Persona(<<"s">>, <<"b">>, <<"S">>)>>
    /\ hist[1].before = << <<"x", " ", "@", "s">>, <<"h", ";", ";">> >>
    /\ RequestOf(1).model = <<"a">>
    /\ RequestOf(1).messages[1].content
           = <<"Context from the current note:", NL, "x", " ">>

\* C31: a tick that finds the generation line index not below the line count
\* of the document cancels the timer and changes nothing in the document;
\* and an invocation whose timer is off never ticks again nor gets its timer
\* back, whatever the document grows to afterwards.
C31_TimerSelfCancels ==
    [][\A i \in AllInvs :
          /\ (hist'[i].ticks = hist[i].ticks + 1 /\ inv[i].generationLine >= Len(doc)) =>
                 /\ doc' = doc
                 /\ ~inv'[i].timerActive
                 /\ hist'[i].clears = hist[i].clears + 1
                 /\ hist'[i].tickWrites = hist[i].tickWrites
          /\ (Started(i) /\ ~inv[i].timerActive) =>
                 /\ hist'[i].ticks = hist[i].ticks
                 /\ ~inv'[i].timerActive]_vars

\* the user cut the document off above the generation line, a tick cancelled
\* the timer, and the first delta, appended at the end, made the document
\* longer than the generation line index again
C31_Witness ==
    /\ userEdits = 1
    /\ hist[1].ticks > 0
    /\ hist[1].clears = 2
    /\ hist[1].lastWrite = "fallback"
    /\ ~inv[1].timerActive
    /\ inv[1].pc = "read"
    /\ Len(doc) > inv[1].generationLine

\* what the fallback puts in front of the first delta
LeadingSeparator(style) ==
    IF style = "callout" THEN <<NL, NL, NL, ">", " ">> ELSE <<NL, NL>>

\* the deltas one after the other, as they are shown in the style
RECURSIVE Shown(_, _)
Shown(deltas, style) ==
    IF deltas = <<>> THEN <<>>
    ELSE (IF style = "callout" THEN QuoteNewlines(Head(deltas)) ELSE Head(deltas))
             \o Shown(Tail(deltas), style)

EndOf(d) == Pos(Len(d) - 1, Len(d[Len(d)]))

\* C32: when the first content delta arrives and the generation line index
\* is not below the line count, the new document is the old one followed by
\* the separator of the style ("\n\n", in callout style "\n\n\n> ") and the
\* delta, and the tracked position is the end of the document; a later delta
\* that finds the tracked position still at the end of the document is put
\* right after, and the position is the end of the document again.
C32_FallbackAppendsAtEnd ==
    [][\A i \in AllInvs :
          LET style == settings.responseStyle
              new == SubSeq(hist'[i].written, Len(hist[i].written) + 1,
                            Len(hist'[i].written))
          IN  /\ (/\ inv[i].isFirstChunk /\ ~inv'[i].isFirstChunk
                  /\ inv[i].generationLine >= Len(doc)) =>
                     /\ Join(doc') = Join(doc) \o LeadingSeparator(style) \o Shown(new, style)
                     /\ inv'[i].currentInsertPos = EndOf(doc')
              /\ (/\ Started(i) /\ ~inv[i].isFirstChunk /\ new # <<>>
                  /\ inv[i].currentInsertPos = EndOf(doc)) =>
                     /\ Join(doc') = Join(doc) \o Shown(new, style)
                     /\ inv'[i].currentInsertPos = EndOf(doc')]_vars

\* in callout style the first delta was appended to a document cut off above
\* the generation line, and a second delta right after it
C32_Witness ==
    /\ settings.responseStyle = "callout"
    /\ userEdits = 1
    /\ hist[1].clears = 1
    /\ Len(hist[1].written) = 2
    /\ hist[1].lastWrite = "delta"
    /\ hist[1].lines = 2
    /\ inv[1].generationLine = 4
    /\ Len(doc) = 7
    /\ doc[5] = <<>> /\ doc[6] = <<>>
    /\ doc[7] = <<">", " ", "a", "a">>
    /\ inv[1].currentInsertPos = EndOf(doc)

\* C33: after the trigger the invocation line is the old one without one
\* trigger phrase at its end when it ended with the phrase, and the old one
\* otherwise; the lines above are as they were; and the prompt sent is read
\* from the reference to the end of the line as it is now, so the phrase
\* taken away is not in it.
C33_OneTriggerRemoved ==
    \A i \in AllInvs : Sent(i) =>
        LET n == inv[i].lineNum
            old == hist[i].before[n + 1]
            new == doc[n + 1]
            from == Pos(inv[i].modelLineNum, inv[i].modelIndex + 1 + Len(inv[i].model))
            typed == trim(getRange(doc, from, Pos(n, Len(new))))
        IN  /\ IF endsWith(old, settings.triggerPhrase)
               THEN old = new \o settings.triggerPhrase
               ELSE new = old
            /\ SubSeq(doc, 1, n) = SubSeq(hist[i].before, 1, n)
            /\ PromptSent(i) = IF endsWith(typed, <<"+", "w", "e", "b">>)
                               THEN trim(SubSeq(typed, 1, Len(typed) - 4))
                               ELSE typed

\* a line that ended with the phrase twice keeps one, which is sent
C33_Witness ==
    /\ Sent(1)
    /\ hist[1].before = << <<"@", "m", " ", "h", ";", ";", ";", ";">> >>
    /\ doc[1] = <<"@", "m", " ", "h", ";", ";">>
    /\ PromptSent(1) = <<"h", ";", ";">>

\* the document d2 is the document d with some text put in at position p,
\* and q is the position just after that text
InsertionAt(d, d2, p, q) ==
    LET old == Join(d)
        new == Join(d2)
        off == OffsetOf(d, p)
        grown == Len(new) - Len(old)
    IN  /\ grown > 0
        /\ SubSeq(new, 1, off) = SubSeq(old, 1, off)
        /\ SubSeq(new, off + grown + 1, Len(new)) = SubSeq(old, off + 1, Len(old))
        /\ q.line < Len(d2) /\ q.ch <= Len(d2[q.line + 1])
        /\ OffsetOf(d2, q) = off + grown

\* C34: a step of an invocation that is past its first content delta either
\* leaves the document as it is or puts one text in at the tracked position:
\* every character before and after that position is kept, in order, and
\* the tracked position moves to just after the text; when the step handled
\* content deltas only, the text is those deltas as shown in the style.
C34_LaterEditsArePureInsertions ==
    [][\A i \in AllInvs :
          (/\ Started(i) /\ ~inv[i].isFirstChunk /\ doc' # doc
           /\ hist'[i] # hist[i]) =>
              LET new == SubSeq(hist'[i].written, Len(hist[i].written) + 1,
                                Len(hist'[i].written))
                  at == inv[i].currentInsertPos
                  off == OffsetOf(doc, at)
                  shown == Shown(new, settings.responseStyle)
              IN  /\ InsertionAt(doc, doc', at, inv'[i].currentInsertPos)
                  /\ new # <<>> =>
                         SubSeq(Join(doc'), off + 1, off + Len(shown)) = shown]_vars

\* in divider style with the cursor moved to the end: after the first delta
\* a Sources block, the rule and the last line break were put in, and the
\* text below is still there
C34_Witness ==
    /\ inv[1].exit = "finalized"
    /\ settings.responseStyle = "horizontal-rule"
    /\ settings.cursorBehavior = "end"
    /\ Len(hist[1].written) = 1
    /\ hist[1].lastWrite = "newline"
    /\ inv[1].collectedAnnotations # <<>>
    /\ hist[1].before = Text2
    /\ doc[Len(doc)] = <<"z">>

\* C35: once an invocation has returned, its timer is off and no step
\* changes the document any more (no user edits the document here), also
\* when the stream ended without a content delta.
C35_TerminatedMeansQuiet ==
    [][\A i \in AllInvs :
          inv[i].pc = "done" => (~inv[i].timerActive /\ doc' = doc)]_vars

\* the stream ended without content and the invocation was finalized; the
\* timer is still running and the generation line still holds a frame, which
\* the next tick will overwrite
C35_Witness ==
    /\ inv[1].pc = "done"
    /\ inv[1].exit = "finalized"
    /\ hist[1].written = <<>>
    /\ hist[1].lines > 0
    /\ inv[1].timerActive
    /\ hist[1].ticks < MaxTicks
    /\ looksLikeSpinner(getLine(doc, inv[1].generationLine))

\* the lines of the document that hold a glyph of the animation
FrameLines == {l \in 1..Len(doc) : \E p \in 1..Len(doc[l]) : doc[l][p] \in Glyphs}

\* the generated content as lines of the document, none when there is none
ShownLines(i) ==
    IF hist[i].written = <<>> THEN <<>>
    ELSE StyledLines(Flatten(hist[i].written), settings.responseStyle)

\* the Sources list and the trailing divider of invocation i
TrailerLines(i) ==
    HeadingLines \cup EntryLines \cup {l \in RuleLines : l > inv[i].generationLine}

\* once finalized: no frame is left, the region begins with the content, and
\* the Sources list and the trailing divider are below it
CompletedCleanly(i) ==
    LET k == Len(ShownLines(i))
    IN  /\ FrameLines = {}
        /\ Len(Region(i)) >= k
        /\ SubSeq(Region(i), 1, k) = ShownLines(i)
        /\ \A l \in TrailerLines(i) : l > inv[i].generationLine + k

\* C36: with no user edit, a finalized invocation has left no placeholder in
\* the document, and its Sources list and trailing divider are below all the
\* content it wrote; also when the stream carried no content at all.
C36_NoPlaceholderAtCompletion ==
    (userEdits = 0 /\ ~Started(2)) =>
        (inv[1].exit = "finalized" => CompletedCleanly(1))

\* a stream of annotations only was finalized: the Sources list was put in
\* at the generation line, and the placeholder is still there, below it
C36_Witness ==
    /\ inv[1].exit = "finalized"
    /\ hist[1].written = <<>>
    /\ inv[1].collectedAnnotations # <<>>
    /\ HeadingLines # {}
    /\ FrameLines # {}
    /\ \A h \in HeadingLines, f \in FrameLines : h < f

\* C37: the user triggers once, so whatever changes the invocation makes to
\* the document, the observer starts no second invocation: one call of
\* processStreamingQuery, one request.
C37_OwnEditsStartNothing ==
    /\ ~Started(2)
    /\ Len(requests) <= 1

\* `@m h;;;;` typed: the first invocation took one `;;` away and put its
\* placeholder in; the line under the cursor still ends with `;;`, and the
\* observer, called for that change, started a second invocation, which took
\* the other `;;` away and sent a second request
C37_Witness ==
    /\ settings.triggerPhrase = DefaultTrigger
    /\ hist[1].before = << <<"@", "m", " ", "h", ";", ";", ";", ";">> >>
    /\ inv[2].pc = "fetch"
    /\ Len(requests) = 2
    /\ doc[1] = <<"@", "m", " ", "h">>
    /\ Cardinality(FrameLines) = 2

\* line l (counted from 1) holds a placeholder: a frame and nothing else
PlaceholderLine(l) ==
    /\ l \in 1..Len(doc)
    /\ \E f \in Glyphs :
          doc[l] = spinnerPrefix(settings.responseStyle) \o <<f>> \o Generating

\* the document is as long as the placeholder document of invocation i and
\* k lines, and the placeholder is k lines below the generation line: the
\* user has put in (k = 1) or taken away (k = -1) a line above it
ShiftedBy(i, k) ==
    /\ userEdits > 0
    /\ Len(doc) = Len(PlaceholderDoc(i)) + k
    /\ PlaceholderLine(inv[i].generationLine + 1 + k)
    /\ FrameLines = {inv[i].generationLine + 1 + k}

\* C38: when the user has inserted or deleted a line above the generation
\* line before the first content delta, that delta replaces the line that
\* holds the placeholder and no other: the lines above and below it are
\* kept, and no frame stays in the document.
C38_FirstDeltaFollowsPlaceholder ==
    [][\A i \in AllInvs : \A k \in {-1, 1} :
          (/\ inv[i].isFirstChunk /\ ~inv'[i].isFirstChunk
           /\ Len(hist'[i].written) = 1
           /\ ShiftedBy(i, k)) =>
              LET p == inv[i].generationLine + 1 + k
              IN  /\ doc' = SubSeq(doc, 1, p - 1)
                                \o StyledLines(hist'[i].written[1], settings.responseStyle)
                                \o SubSeq(doc, p + 1, Len(doc))
                  /\ FrameLines' = {}]_vars

\* the user deleted the first line of the document while the invocation was
\* waiting; the first delta then took the place of the line "z" below the
\* placeholder, and the placeholder is still in the document
C38_Witness ==
    /\ userEdits = 1
    /\ hist[1].before = Text2
    /\ hist[1].lastWrite = "first"
    /\ settings.responseStyle = "plain"
    /\ Len(doc) = 4
    /\ PlaceholderLine(3)
    /\ doc[4] = <<"a">>
    /\ \A l \in 1..Len(doc) : doc[l] # <<"z">>

\* the content delta of the line the server sent last without a line break
\* after it, if that line is a data line with content
UnterminatedDelta(i) ==
    LET l == hist[i].pending
    IN  IF /\ Len(l) = 2 /\ l[1].part = "H" /\ l[2].part = "T" /\ l[1].ev = l[2].ev
           /\ l[1].ev.k = "data" /\ l[1].ev.content # <<>>
        THEN <<l[1].ev.content>>
        ELSE <<>>

\* C39: when the stream has ended and the invocation is finalized, the
\* content deltas written are those of all the data lines the server sent,
\* in order: those of the lines that ended with a line break, before or
\* after a [DONE] line, and that of a last line without a line break.
C39_EveryDeltaSentIsWritten ==
    \A i \in AllInvs :
        inv[i].exit = "finalized" =>
            hist[i].written = hist[i].arrived \o UnterminatedDelta(i)

\* the server sent `data: a` with a line break and `data: a\nb` without one,
\* then closed: only the first delta was written
C39_Witness ==
    /\ inv[1].exit = "finalized"
    /\ hist[1].arrived = << <<"a">> >>
    /\ UnterminatedDelta(1) = << <<"a", NL, "b">> >>
    /\ hist[1].written = << <<"a">> >>
    /\ inv[1].buffer # <<>>

====
